---- MODULE Spec2Model ----
(***************************************************************************)
(* Model of the reddit-worker ingestion service.                           *)
(*                                                                         *)
(*  - JobManager (jobManager.js): createJob, startJob, runChannelWorker    *)
(*    with its 'message' / 'error' / 'exit' handlers, notifySubscribers.   *)
(*  - channelWorker.js: processChannel, one worker thread per channel,     *)
(*    talking to its parent through an ordered message port.               *)
(*  - RedditClient (client.js): makeRequest with its retry classification. *)
(*                                                                         *)
(* The job manager runs on one event loop: every handler is one atomic     *)
(* action.  Worker threads run in parallel with it; each step of           *)
(* processChannel between two awaits is one action.                        *)
(***************************************************************************)
EXTENDS Integers, Sequences, FiniteSets, TLC

\* ------------------------------------------------------------------ bounds

\* channels of the job in the general specification
MaxChannels == 2
\* progress subscribers that may be connected at once
MaxSubscribers == 2
\* posts a fetch window may return
MaxPosts == 1
\* channels of the job while subscribers come and go
NotifyChannels == 1
\* makeRequest calls on one client
MaxCalls == 2
\* largest retry-after header, in seconds
MaxRetryAfter == 2
\* ms one HTTP exchange takes
Latency == 100
\* feed pages one window may request
MaxPages == 3
\* children of one feed page
MaxPageLen == 2
\* comments in the reply tree of a feed item
FeedReplies == 1
\* comments in a reply tree handed to flattenComments on its own
MaxReplies == 3
\* posts of a batch handed to ingestPosts on its own
MaxBatch == 2
\* comments of a post of such a batch
IngestReplies == 2
\* enabled channels of the command line's configuration
MaxCliChannels == 4

\* ------------------------------------------------------- program constants

\* the documented number of channels processed concurrently
MaxConcurrent == 3
\* RedditClient.minRequestInterval, ms
minRequestInterval == 1000
\* the default of makeRequest's retries parameter
defaultRetries == 3
\* seconds authenticate takes off the token's lifetime
expiryMargin == 300
\* maxPosts of fetchPosts in test mode
testModeLimit == 5
\* VectorDBIngestion.maxRetries
maxRetries == 3
\* ms ingestPosts sleeps after each item
itemDelay == 100

Subscribers == 1..MaxSubscribers

NULL == "null"

VARIABLES
  nch,            \* number of enabled channels handed to createJob / startJob
  clock,          \* number of timestamps taken so far (new Date())
  job,            \* the job record createJob builds (status "none" before)
  promise,        \* the promise runChannelWorker returned for channel i
  wpc,            \* position of worker thread i in processChannel
  posts,          \* worker i: posts.length after fetchPosts; -1 before
  ingestReturned, \* worker i: ingestPosts was invoked and has returned
  health,         \* worker i: what its GET /health got, "untested" before
  inbox,          \* messages worker i posted that the parent has not handled
  published,      \* the events notifySubscribers was given in the last step
  subscribers,    \* this.subscribers, in insertion order
  lastNotify,     \* outcome of the notifySubscribers call of the last step
  now,            \* Date.now() of the channel's RedditClient, in ms
  cpc,            \* position of the running makeRequest call
  calls,          \* makeRequest calls made so far
  accessToken,    \* this.accessToken: 0 is null, k the k-th token issued
  tokenExpiry,    \* this.tokenExpiry; 0 is null
  lastRequestTime,\* this.lastRequestTime
  attempt,        \* the loop variable of makeRequest
  httpAttempts,   \* GET requests the running call has dispatched
  response,       \* the answer to the last GET request
  waited,         \* the delay of the timer the last step slept on; 0 if none
  statuses,       \* the statuses that answered the running call's attempts
  thrown,         \* the message of the error the running call threw; "" if none
  authChecks,     \* ensureAuthenticated calls of the running call
  rateGrants,     \* waitForRateLimit grants of the running call
  lastSent,       \* when the client sent its last GET request; 0 if never
  realExpiry,     \* when the upstream stops accepting the cached token
  exchanged,      \* the last step posted to the token endpoint
  fpc,            \* position of the first channel's fetchPosts call
  testMode,       \* fetchPosts: its testMode argument
  cutoffTime,     \* fetchPosts: cutoffTime, in s
  children,       \* fetchPosts: data.data.children not yet iterated over
  after,          \* fetchPosts: the current page has a continuation token
  fetched,        \* fetchPosts: the posts array
  beforeReachedCutoff, \* fetchPosts: the flag of that name
  pageRequests,   \* fetchNewPosts calls of the window so far
  treeRequests,   \* fetchPostComments calls of the window so far
  ferror,         \* the message of the error fetchPosts threw; "" if none
  logged,         \* what the fetcher's last step logged
  exchangeFailed, \* a credential exchange of the channel's client has failed
  commentData,    \* the listing handed to flattenComments
  comments,       \* what flattenComments returned for it
  flattenDone,    \* flattenComments has returned
  ipc,            \* position of the ingestPosts call
  batch,          \* ingestPosts: redditPosts
  platformName,   \* ingestPosts: platformName; "" is undefined
  postIdx,        \* ingestPosts: index of redditPost in redditPosts
  items,          \* ingestPosts: items of the post at hand
  itemIdx,        \* ingestPosts: index of item in items
  iattempt,       \* ingestItem: attempt
  results,        \* ingestPosts: results
  produced,       \* the documents transformed in the call so far
  docWrites,      \* POST requests dispatched for the item at hand
  lastStatus,     \* the status that answered a POST in the last step; 0 if none
  iwaited,        \* ms the last step of the ingestion slept
  tpost,          \* the post handed to transformPostToVectorFormat on its own
  tplatform,      \* and the platform name
  titems,         \* what the last such call returned
  tprev,          \* what the call before it returned
  tcalls,         \* the number of such calls
  jobs,           \* JobManager.jobs: the ids the registry holds
  enabledChannels, \* the channels argument of createJob and startJob
  sent,           \* per worker, every message it has posted so far
  history,        \* every event published so far: job-level, and per channel
  deleteResult,   \* <<jobId, outcome>> of the deleteJob of the last step
  cliChannels,    \* main: channels.length
  cliWorker,      \* main: per channel, where its worker thread is
  cliPromise,     \* main: per channel, the promise of runChannelWorker
  resultError     \* index.js runChannelWorker: result.error is set

jobVars == <<nch, jobs, enabledChannels, clock, job, promise>>
workerVars == <<wpc, posts, ingestReturned, health, inbox, sent>>
notifyVars == <<published, subscribers, lastNotify, history, deleteResult>>
clientVars == <<now, cpc, calls, accessToken, tokenExpiry, lastRequestTime,
                attempt, httpAttempts, response, waited, statuses, thrown,
                authChecks, rateGrants, lastSent, realExpiry, exchanged>>

fetchVars == <<fpc, testMode, cutoffTime, children, after, fetched,
               beforeReachedCutoff, pageRequests, treeRequests, ferror, logged,
               exchangeFailed>>
flattenVars == <<commentData, comments, flattenDone>>

ingestVars == <<ipc, batch, platformName, postIdx, items, itemIdx, iattempt,
                results, produced, docWrites, lastStatus, iwaited>>
transformVars == <<tpost, tplatform, titems, tprev, tcalls>>
cliVars == <<cliChannels, cliWorker, cliPromise, resultError>>

vars == <<jobVars, workerVars, notifyVars, clientVars, fetchVars, flattenVars,
          ingestVars, transformVars, cliVars>>

\* what a step of the job manager or of a worker's pipeline leaves alone
outsideJob == <<clientVars, fetchVars, flattenVars, ingestVars, transformVars,
  cliVars>>
\* what a step of the RedditClient leaves alone
outsideClient == <<jobVars, workerVars, notifyVars, fetchVars, flattenVars,
                   ingestVars, transformVars,
  cliVars>>
\* what a step of the RedditFetcher leaves alone
outsideFetch == <<jobVars, workerVars, notifyVars, clientVars, flattenVars,
                  ingestVars, transformVars,
  cliVars>>
\* what flattenComments leaves alone
outsideFlatten == <<jobVars, workerVars, notifyVars, clientVars, fetchVars,
                    ingestVars, transformVars,
  cliVars>>
\* what a step of the VectorDBIngestion leaves alone
outsideIngest == <<jobVars, workerVars, notifyVars, clientVars, fetchVars,
                   flattenVars, transformVars,
  cliVars>>
\* what transformPostToVectorFormat leaves alone
\* what a step of the command line's main leaves alone
outsideCli == <<jobVars, workerVars, notifyVars, clientVars, fetchVars,
                flattenVars, ingestVars, transformVars>>
outsideTransform == <<jobVars, workerVars, notifyVars, clientVars, fetchVars,
                      flattenVars, ingestVars,
  cliVars>>

\* ----------------------------------------------------------------- values

Channels == 1..nch

ZeroStats == [posts |-> 0, comments |-> 0, successful |-> 0, failed |-> 0]

\* the summaries ingestPosts can return for n fetched posts, as far as the
\* job manager looks at them: every document written, or every one refused
IngestResults(n) ==
  { [posts |-> n, comments |-> n, successful |-> n + n, failed |-> 0],
    [posts |-> 0, comments |-> 0, successful |-> 0, failed |-> n + n] }

Terminal == {"completed", "failed"}
Running == {"started", "fetching", "ingesting"}

\* the messages channelWorker.js posts to its parent
Progress(status, postsCount) ==
  [type |-> "progress", status |-> status, stats |-> << >>,
   error |-> NULL, postsCount |-> postsCount]

Complete(stats) ==
  [type |-> "complete", status |-> NULL, stats |-> <<stats>>,
   error |-> NULL, postsCount |-> 0]

ErrorMsg(error) ==
  [type |-> "error", status |-> NULL, stats |-> << >>,
   error |-> error, postsCount |-> 0]

\* the events the job manager hands to notifySubscribers; channel 0 is a
\* job-level event
Event(type, channel, status, stats, error) ==
  [type |-> type, channel |-> channel, status |-> status,
   stats |-> stats, error |-> error]

\* one entry of job.channels; stats << >> is null, postsCount 0 is undefined
NewChannel ==
  [status |-> "pending", stats |-> << >>, error |-> NULL, postsCount |-> 0]

\* the registry holds no job yet; timestamps are 0 while null
NoJob ==
  [status |-> "none", channels |-> << >>, createdAt |-> 0, startedAt |-> 0,
   completedAt |-> 0, totalStats |-> ZeroStats]

\* ------------------------------------------------------ notifySubscribers

NoDelivery ==
  [threw |-> {}, received |-> [s \in Subscribers |-> 0], propagated |-> FALSE]

\* forEach without the try/catch: the first throwing callback ends the
\* iteration and the exception reaches the caller
notifySubscribersNoCatch(subs, throwing) ==
  LET first == IF \E k \in 1..Len(subs) : subs[k] \in throwing
               THEN CHOOSE k \in 1..Len(subs) :
                      /\ subs[k] \in throwing
                      /\ \A j \in 1..(k - 1) : subs[j] \notin throwing
               ELSE Len(subs)
  IN [threw |-> throwing,
      received |-> [s \in Subscribers |->
                      IF \E k \in 1..first : subs[k] = s THEN 1 ELSE 0],
      propagated |-> (throwing # {})]

\* notifySubscribers(event): every callback of the set is called once, in
\* insertion order; what a callback throws is caught and logged
notifySubscribers(subs, throwing) ==
  [threw |-> throwing,
   received |-> [s \in Subscribers |->
                   IF \E k \in 1..Len(subs) : subs[k] = s THEN 1 ELSE 0],
   propagated |-> FALSE]

SubscriberSet == { subscribers[k] : k \in 1..Len(subscribers) }

\* a handler that publishes nothing
Silent ==
  /\ published' = << >>
  /\ lastNotify' = NoDelivery
  /\ deleteResult' = << >>
  /\ UNCHANGED <<subscribers, history>>

\* the events published so far, after these
seen(h, events) ==
  IF events = << >>
  THEN h
  ELSE LET e == events[1]
       IN IF e.channel = 0
          THEN [h EXCEPT !.job = Append(@, e)]
          ELSE [h EXCEPT !.channel[e.channel] = Append(@, e)]

\* ----------------------------------------------------------- HTTP answers

\* an answer; its retry-after header is << >> when absent, <<n>> for the
\* string "n"
HttpResponse(status, retryAfter) == [status |-> status, retryAfter |-> retryAfter]

NoResponse == HttpResponse(0, << >>)

\* what the upstream can answer to a GET: success, a 429 with or without a
\* retry-after header, a 401, a server error, another client error; status
\* -1 is an error without response (network failure, timeout)
Responses ==
  { HttpResponse(st, << >>) : st \in {200, 401, 404, 429, 500, -1} }
  \cup { HttpResponse(429, <<n>>) : n \in 1..MaxRetryAfter }

\* what the token endpoint can answer: expires_in seconds, or 0 for a
\* refused exchange
ExpiresIn == {0, expiryMargin + 1, 3600}

\* ------------------------------------------------------- Reddit listings

\* how a comment shows its state: a live one, one whose author is deleted,
\* one whose body was removed
CommentKinds ==
  { [author |-> "u", body |-> "text"],
    [author |-> "[deleted]", body |-> "[deleted]"],
    [author |-> "u", body |-> "[removed]"] }

\* the value of `replies` of a comment without replies, and of a missing
\* listing
NoListing == [kind |-> "", data |-> [children |-> << >>]]

\* the shapes of a reply tree of at most n comments: comment c hangs under
\* parent[c] (0: directly under the post) and comments are numbered in feed
\* order
ReplyTrees(n) ==
  UNION { { [parent |-> par, mark |-> mk] :
              par \in { f \in [1..k -> 0..k] : \A c \in 1..k : f[c] < c },
              mk \in [1..k -> CommentKinds] } : k \in 0..n }

RECURSIVE Listing(_, _)
RECURSIVE childrenFrom(_, _, _)

\* the t1 children of p among the comments c, c + 1, ...
childrenFrom(tree, p, c) ==
  IF c > Len(tree.parent)
  THEN << >>
  ELSE (IF tree.parent[c] = p
        THEN << [kind |-> "t1",
                 data |-> [id |-> c,
                           author |-> tree.mark[c].author,
                           body |-> tree.mark[c].body,
                           replies |-> Listing(tree, c)]] >>
        ELSE << >>)
       \o childrenFrom(tree, p, c + 1)

\* the listing the API returns for the replies of p
Listing(tree, p) ==
  IF childrenFrom(tree, p, 1) = << >>
  THEN NoListing
  ELSE [kind |-> "Listing", data |-> [children |-> childrenFrom(tree, p, 1)]]

\* the comment listings of the trees of at most n comments
Listings(n) == { Listing(tree, 0) : tree \in ReplyTrees(n) }

\* "Skip deleted/removed comments"
removedComment(comment) ==
  \/ comment.author = "[deleted]"
  \/ comment.body = "[deleted]"
  \/ comment.body = "[removed]"

RECURSIVE flattenComments(_, _)
RECURSIVE flattenChildren(_, _)

\* the for loop of flattenComments over data.children
flattenChildren(list, depth) ==
  IF list = << >>
  THEN << >>
  ELSE LET item == Head(list)
           rest == flattenChildren(Tail(list), depth)
       IN IF item.kind = "t1"
          THEN IF removedComment(item.data)
               THEN rest
               ELSE << [id |-> item.data.id,
                        depth |-> depth,
                        replies |-> flattenComments(item.data.replies,
                                                    depth + 1)] >> \o rest
          ELSE rest

flattenComments(listing, depth) ==
  IF listing.kind # "Listing"
  THEN << >>
  ELSE flattenChildren(listing.data.children, depth)

\* a child of a feed page: created_utc is d seconds after the cutoff
FeedItem(kind, d, author, selftext) ==
  [kind |-> kind,
   data |-> [created_utc |-> d, author |-> author, selftext |-> selftext]]

\* the children a feed page can hold: posts at the cutoff and one second
\* before it, live, with a deleted author or removed, and a child that is
\* no post
FeedItems(cutoff) ==
  { FeedItem("t3", cutoff + d, mk.author, mk.selftext) :
      d \in {-1, 0},
      mk \in { [author |-> "u", selftext |-> ""],
               [author |-> "[deleted]", selftext |-> ""],
               [author |-> "u", selftext |-> "[removed]"] } }
  \cup { FeedItem("t5", cutoff, "u", "") }

\* the pages fetchNewPosts can return
Pages(cutoff) ==
  UNION { [1..k -> FeedItems(cutoff)] : k \in 0..MaxPageLen }

\* ---------------------------------------------------------------- initial

InitJob ==
  /\ clock = 0
  /\ job = NoJob
  /\ promise = << >>
  /\ wpc = << >>
  /\ posts = << >>
  /\ ingestReturned = << >>
  /\ health = << >>
  /\ inbox = << >>
  /\ sent = << >>
  /\ published = << >>
  /\ subscribers = << >>
  /\ lastNotify = NoDelivery
  /\ history = [job |-> << >>, channel |-> [i \in Channels |-> << >>]]
  /\ deleteResult = << >>
  /\ jobs = {}
  /\ enabledChannels = << >>

\* a RedditClient as its constructor leaves it.  lastRequestTime is 0 and
\* Date.now() is far beyond it: the clock starts one interval after 0.
InitClient ==
  /\ now = minRequestInterval
  /\ cpc = "idle"
  /\ calls = 0
  /\ accessToken = 0
  /\ tokenExpiry = 0
  /\ lastRequestTime = 0
  /\ attempt = 0
  /\ httpAttempts = 0
  /\ response = NoResponse
  /\ waited = 0
  /\ statuses = << >>
  /\ thrown = ""
  /\ authChecks = 0
  /\ rateGrants = 0
  /\ lastSent = 0
  /\ realExpiry = 0
  /\ exchanged = FALSE

\* no fetchPosts call yet
InitFetch ==
  /\ fpc = "idle"
  /\ testMode = FALSE
  /\ cutoffTime = 0
  /\ children = << >>
  /\ after = FALSE
  /\ fetched = << >>
  /\ beforeReachedCutoff = FALSE
  /\ pageRequests = 0
  /\ treeRequests = 0
  /\ ferror = ""
  /\ logged = ""
  /\ exchangeFailed = FALSE

\* no flattenComments call
InitFlatten ==
  /\ commentData = NoListing
  /\ comments = << >>
  /\ flattenDone = FALSE

\* the results object ingestPosts starts with
NoResults ==
  [total |-> 0, successful |-> 0, failed |-> 0, posts |-> 0, comments |-> 0,
   errors |-> << >>]

\* no ingestPosts call yet
InitIngest ==
  /\ ipc = "idle"
  /\ batch = << >>
  /\ platformName = ""
  /\ postIdx = 0
  /\ items = << >>
  /\ itemIdx = 0
  /\ iattempt = 0
  /\ results = NoResults
  /\ produced = << >>
  /\ docWrites = 0
  /\ lastStatus = 0
  /\ iwaited = 0

\* a post without comments
NoPost == [id |-> 0, created_utc |-> 0, subreddit |-> "", comments |-> << >>]

\* main has not run
InitCli ==
  /\ cliChannels = 0
  /\ cliWorker = << >>
  /\ cliPromise = << >>
  /\ resultError = << >>

\* no transformPostToVectorFormat call of its own
InitTransform ==
  /\ tpost = NoPost
  /\ tplatform = ""
  /\ titems = << >>
  /\ tprev = << >>
  /\ tcalls = 0

Init ==
  /\ nch \in 1..MaxChannels
  /\ InitJob
  /\ InitClient
  /\ InitFetch
  /\ InitIngest
  /\ InitTransform
  /\ InitCli
  /\ InitFlatten

\* -------------------------------------------------------------- JobManager

\* one entry of the array getEnabledChannels returns: the channel's name and
\* channelConfig.platform || subreddit; "" is a missing platform
enabledChannel(subreddit, channelConfig) ==
  [subreddit |-> subreddit,
   platform |-> IF channelConfig.platform # ""
                THEN channelConfig.platform
                ELSE subreddit]

\* the enabled entries channels.json can have for a channel
ChannelConfigs ==
  { [enabled |-> TRUE, platform |-> tag] : tag \in {"", "tag"} }

\* createJob(channels, hours, days, testMode); the job's id is 1
createJobWith(chs) ==
  /\ job.status = "none"
  /\ 1 \notin jobs
  /\ \E throwing \in SUBSET SubscriberSet :
       /\ clock' = clock + 1
       /\ job' = [status |-> "pending",
                  channels |-> [i \in DOMAIN chs |-> NewChannel],
                  createdAt |-> clock',
                  startedAt |-> 0,
                  completedAt |-> 0,
                  totalStats |-> ZeroStats]
       /\ jobs' = jobs \cup {1}
       /\ enabledChannels' = chs
       /\ published' = <<Event("job_created", 0, "pending", << >>, NULL)>>
       /\ lastNotify' = notifySubscribers(subscribers, throwing)
       /\ history' = seen(history, published')
       /\ deleteResult' = << >>
  /\ UNCHANGED <<nch, promise, workerVars, subscribers, outsideJob>>

\* the API route creates the job for the enabled channels of channels.json
createJob ==
  createJobWith([i \in Channels |->
                  enabledChannel("r/channel",
                                 [enabled |-> TRUE, platform |-> ""])])

\* Promise.all in the place of Promise.allSettled: one rejection rejects the
\* whole and startJob never gets to its continuation
allFulfilled(p) ==
  /\ p # << >>
  /\ \A i \in DOMAIN p : p[i] = "resolved"

\* the first settled promise resolves the whole
anySettled(p) ==
  /\ p # << >>
  /\ \E i \in DOMAIN p : p[i] # "pending"

\* Promise.allSettled(workerPromises) has resolved
allSettled(p) ==
  /\ p # << >>
  /\ \A i \in DOMAIN p : p[i] # "pending"

\* startJob, up to its await: the API route calls it once, on the job it has
\* just created.  runChannelWorker is called for every channel in the same
\* synchronous map.
startJob ==
  /\ 1 \in jobs
  /\ job.status = "pending"
  /\ \E throwing \in SUBSET SubscriberSet :
       LET d == notifySubscribers(subscribers, throwing) IN
       /\ clock' = clock + 1
       /\ job' = [job EXCEPT !.status = "running", !.startedAt = clock']
       /\ published' = <<Event("job_started", 0, "running", << >>, NULL)>>
       /\ lastNotify' = d
       /\ history' = seen(history, published')
       /\ deleteResult' = << >>
       /\ IF d.propagated
          THEN UNCHANGED <<promise, workerVars>>
          ELSE /\ promise' = [i \in Channels |-> "pending"]
               /\ wpc' = [i \in Channels |-> "spawned"]
               /\ posts' = [i \in Channels |-> -1]
               /\ ingestReturned' = [i \in Channels |-> FALSE]
               /\ health' = [i \in Channels |-> "untested"]
               /\ inbox' = [i \in Channels |-> << >>]
               /\ sent' = [i \in Channels |-> << >>]
  /\ UNCHANGED <<nch, jobs, enabledChannels, subscribers, outsideJob>>

\* ---------------------------------------------------------- channelWorker

\* a worker thread that can still run code (or throw)
Alive == {"spawned", "fetching", "testing", "ingesting", "done"}

\* parentPort.postMessage, as often as msgs has messages; the worker thread
\* touches nothing of the job manager
post(i, msgs) ==
  /\ inbox' = [inbox EXCEPT ![i] = @ \o msgs]
  /\ sent' = [sent EXCEPT ![i] = @ \o msgs]
  /\ UNCHANGED <<jobVars, outsideJob>>
  /\ Silent

\* processChannel up to its first await: 'started' and 'fetching' are posted
\* back to back, then fetchPosts is awaited
processChannelStart(i) ==
  /\ wpc[i] = "spawned"
  /\ wpc' = [wpc EXCEPT ![i] = "fetching"]
  /\ post(i, <<Progress("started", 0), Progress("fetching", 0)>>)
  /\ UNCHANGED <<posts, ingestReturned, health>>

\* fetchPosts threw: the catch block posts 'error'
fetchPostsThrows(i) ==
  /\ wpc[i] = "fetching"
  /\ wpc' = [wpc EXCEPT ![i] = "done"]
  /\ post(i, <<ErrorMsg("fetchPosts failed")>>)
  /\ UNCHANGED <<posts, ingestReturned, health>>

\* fetchPosts threw a value the catch block cannot read `.message` of: the
\* catch block throws before its postMessage, processChannel() rejects and
\* its .catch posts 'error' and calls process.exit(1)
unhandledRejection(i) ==
  /\ wpc[i] = "fetching"
  /\ wpc' = [wpc EXCEPT ![i] = "rejected"]
  /\ post(i, <<ErrorMsg("Cannot read properties of undefined")>>)
  /\ UNCHANGED <<posts, ingestReturned, health>>

\* the zero-post branch without its return: 'complete' is posted and the
\* function goes on to the connection test
afterFetchPostsFallsThrough(n) ==
  IF n = 0
  THEN [pc |-> "testing", post |-> <<Complete(ZeroStats)>>]
  ELSE [pc |-> "testing", post |-> << >>]

\* what processChannel does with the n posts fetchPosts returned
afterFetchPosts(n) ==
  IF n = 0
  THEN [pc |-> "done", post |-> <<Complete(ZeroStats)>>]
  ELSE [pc |-> "testing", post |-> << >>]

\* const posts = await fetcher.fetchPosts(...) got n posts
fetchPostsReturned(i, n) ==
  /\ wpc[i] = "fetching"
  /\ posts' = [posts EXCEPT ![i] = n]
  /\ wpc' = [wpc EXCEPT ![i] = afterFetchPosts(n).pc]
  /\ post(i, afterFetchPosts(n).post)
  /\ UNCHANGED <<ingestReturned, health>>

fetchPostsReturns(i) ==
  \E n \in 0..MaxPosts : fetchPostsReturned(i, n)

\* a failed connection test reported as a completed channel
afterTestConnectionLenient(connectionOk, n) ==
  IF connectionOk
  THEN [pc |-> "ingesting", post |-> <<Progress("ingesting", n)>>]
  ELSE [pc |-> "done", post |-> <<Complete(ZeroStats)>>]

\* what processChannel does with the answer of testConnection
afterTestConnection(connectionOk, n) ==
  IF connectionOk
  THEN [pc |-> "ingesting", post |-> <<Progress("ingesting", n)>>]
  ELSE [pc |-> "done",
        post |-> <<ErrorMsg("Vector DB connection test failed")>>]

\* what GET /health can give: status 'healthy', another answer, an error
HealthAnswers == {"healthy", "unhealthy", "threw"}

\* a connection test that takes every answer of the store for a good one
testConnectionAnyAnswer(answer) == answer # "threw"

\* vectorDB.testConnection(): response.data.status === 'healthy', and false
\* when the request throws
testConnection(answer) == answer = "healthy"

testConnectionReturns(i) ==
  /\ wpc[i] = "testing"
  /\ \E answer \in HealthAnswers :
       LET connectionOk == testConnection(answer) IN
       /\ health' = [health EXCEPT ![i] = answer]
       /\ wpc' = [wpc EXCEPT ![i] = afterTestConnection(connectionOk, posts[i]).pc]
       /\ post(i, afterTestConnection(connectionOk, posts[i]).post)
  /\ UNCHANGED <<posts, ingestReturned>>

\* ingestPosts catches what a post's ingestion throws: it always returns
ingestPostsReturned(i, stats) ==
  /\ wpc[i] = "ingesting"
  /\ post(i, <<Complete(stats)>>)
  /\ wpc' = [wpc EXCEPT ![i] = "done"]
  /\ ingestReturned' = [ingestReturned EXCEPT ![i] = TRUE]
  /\ UNCHANGED <<posts, health>>

\* the same, with the ingestion left open
ingestPostsReturns(i) ==
  \E stats \in IngestResults(posts[i]) : ingestPostsReturned(i, stats)

\* ------------------------------------------- runChannelWorker's handlers

\* worker.on('message'): what the handler does to job.channels[channelIndex]
onMessage(ch, m) ==
  CASE m.type = "progress" ->
         [ch EXCEPT !.status = m.status,
                    !.postsCount = IF m.postsCount # 0 THEN m.postsCount ELSE @]
    [] m.type = "complete" ->
         [ch EXCEPT !.status = "completed", !.stats = m.stats]
    [] m.type = "error" ->
         [ch EXCEPT !.status = "failed", !.error = m.error]

\* the event the 'message' handler publishes
messageEvent(i, m) ==
  CASE m.type = "progress" ->
         Event("channel_progress", i, m.status, << >>, NULL)
    [] m.type = "complete" ->
         Event("channel_completed", i, NULL, m.stats, NULL)
    [] m.type = "error" ->
         Event("channel_error", i, NULL, << >>, m.error)

\* the parent handles the oldest message of worker i
workerMessage(i) ==
  /\ inbox[i] # << >>
  /\ \E throwing \in SUBSET SubscriberSet :
       LET m == Head(inbox[i]) IN
       /\ job' = [job EXCEPT !.channels[i] = onMessage(@, m)]
       /\ published' = <<messageEvent(i, m)>>
       /\ lastNotify' = notifySubscribers(subscribers, throwing)
       /\ history' = seen(history, published')
       /\ deleteResult' = << >>
  /\ inbox' = [inbox EXCEPT ![i] = Tail(@)]
  /\ UNCHANGED <<nch, jobs, enabledChannels, clock, promise, wpc, posts,
                 ingestReturned, health, sent, subscribers, outsideJob>>

\* resolve() or reject() of a promise: a settled promise stays as it is
settle(p, how) == IF p = "pending" THEN how ELSE p

\* an 'error' handler that records the message only
onErrorKeepsStatus(ch, message) == [ch EXCEPT !.error = message]

\* worker.on('error')
onError(ch, message) ==
  [ch EXCEPT !.status = "failed", !.error = message]

\* worker thread i throws an uncaught exception while it is alive.  The
\* messages it posted before are delivered first; 'error' is emitted, the
\* thread is gone and its 'exit' follows.
workerError(i) ==
  /\ wpc[i] \in Alive
  /\ inbox[i] = << >>
  /\ job' = [job EXCEPT !.channels[i] = onError(@, "uncaught exception")]
  /\ promise' = [promise EXCEPT ![i] = settle(@, "rejected")]
  /\ wpc' = [wpc EXCEPT ![i] = "crashed"]
  /\ UNCHANGED <<nch, jobs, enabledChannels, clock, posts, ingestReturned,
                 health, inbox, sent, outsideJob>>
  /\ Silent

\* the exit code of a worker thread: 0 when processChannel ran to its end,
\* 1 after an uncaught exception or process.exit(1)
exitCode(pc) == IF pc = "done" THEN 0 ELSE 1

\* worker.on('exit')
onExit(ch, code) ==
  IF code # 0 /\ ch.status # "completed"
  THEN [ch EXCEPT !.status = "failed",
                  !.error = "Worker stopped with exit code 1"]
  ELSE ch

\* worker thread i has stopped; its messages were delivered before
workerExit(i) ==
  /\ wpc[i] \in {"done", "crashed", "rejected"}
  /\ inbox[i] = << >>
  /\ job' = [job EXCEPT !.channels[i] = onExit(@, exitCode(wpc[i]))]
  /\ promise' = [promise EXCEPT ![i] = settle(@, "resolved")]
  /\ wpc' = [wpc EXCEPT ![i] = "exited"]
  /\ UNCHANGED <<nch, jobs, enabledChannels, clock, posts, ingestReturned,
                 health, inbox, sent, outsideJob>>
  /\ Silent

\* ------------------------------------------------ startJob, after its await

\* totals that leave the failed documents out
addStatsNoFailed(total, ch) ==
  IF ch.stats # << >>
  THEN [posts |-> total.posts + ch.stats[1].posts,
        comments |-> total.comments + ch.stats[1].comments,
        successful |-> total.successful + ch.stats[1].successful,
        failed |-> total.failed]
  ELSE total

\* the body of job.channels.forEach in startJob
addStats(total, ch) ==
  IF ch.stats # << >>
  THEN [posts |-> total.posts + ch.stats[1].posts,
        comments |-> total.comments + ch.stats[1].comments,
        successful |-> total.successful + ch.stats[1].successful,
        failed |-> total.failed + ch.stats[1].failed]
  ELSE total

RECURSIVE forEachChannel(_, _, _)
forEachChannel(total, channels, k) ==
  IF k > Len(channels)
  THEN total
  ELSE forEachChannel(addStats(total, channels[k]), channels, k + 1)

\* a job that reports failed as soon as one of its channels failed
finalStatusFailFast(channels) ==
  IF \E i \in DOMAIN channels : channels[i].status = "failed"
  THEN "failed"
  ELSE "completed"

\* the status startJob gives the job once every worker promise has settled
finalStatus(channels) == "completed"

\* the continuation of startJob after Promise.allSettled
startJobSettled ==
  /\ job.status = "running"
  /\ allSettled(promise)
  /\ \E throwing \in SUBSET SubscriberSet :
       /\ clock' = clock + 1
       /\ job' = [job EXCEPT
                    !.status = finalStatus(job.channels),
                    !.completedAt = clock',
                    !.totalStats = forEachChannel(@, job.channels, 1)]
       /\ published' = <<Event("job_completed", 0, job'.status, << >>, NULL)>>
       /\ lastNotify' = notifySubscribers(subscribers, throwing)
       /\ history' = seen(history, published')
       /\ deleteResult' = << >>
  /\ UNCHANGED <<nch, jobs, enabledChannels, promise, workerVars, subscribers,
                 outsideJob>>

\* ------------------------------------------------------- subscribe

\* subscribe(callback): Set.add; the WebSocket server calls it per connection
subscribe(s) ==
  /\ s \notin SubscriberSet
  /\ subscribers' = Append(subscribers, s)
  /\ published' = << >>
  /\ lastNotify' = NoDelivery
  /\ deleteResult' = << >>
  /\ UNCHANGED history
  /\ UNCHANGED <<jobVars, workerVars, outsideJob>>

\* the function subscribe returned: Set.delete
unsubscribe(s) ==
  /\ s \in SubscriberSet
  /\ subscribers' = SelectSeq(subscribers, LAMBDA x : x # s)
  /\ published' = << >>
  /\ lastNotify' = NoDelivery
  /\ deleteResult' = << >>
  /\ UNCHANGED history
  /\ UNCHANGED <<jobVars, workerVars, outsideJob>>

\* ------------------------------------------------------------ RedditClient

\* an exchange that succeeds without replacing the cached token
authenticateStale(expiresIn, at) ==
  IF expiresIn = 0
  THEN [ok |-> FALSE, accessToken |-> accessToken, tokenExpiry |-> tokenExpiry]
  ELSE [ok |-> TRUE,
        accessToken |-> accessToken,
        tokenExpiry |-> at + (expiresIn - expiryMargin) * 1000]

\* authenticate(): the token endpoint answered expiresIn (0: the exchange
\* was refused and authenticate throws)
authenticate(expiresIn, at) ==
  IF expiresIn = 0
  THEN [ok |-> FALSE, accessToken |-> accessToken, tokenExpiry |-> tokenExpiry]
  ELSE [ok |-> TRUE,
        accessToken |-> accessToken + 1,
        tokenExpiry |-> at + (expiresIn - expiryMargin) * 1000]

\* when the token the endpoint issued at `at` really stops being accepted
granted(expiresIn, at) ==
  IF expiresIn = 0 THEN realExpiry ELSE at + expiresIn * 1000

\* makeRequest(url, params) is called; the fetcher awaits each call before
\* it makes the next
makeRequest ==
  /\ cpc = "idle"
  /\ calls < MaxCalls
  /\ calls' = calls + 1
  /\ cpc' = "ensureAuthenticated"
  /\ attempt' = 0
  /\ httpAttempts' = 0
  /\ response' = NoResponse
  /\ waited' = 0
  /\ statuses' = << >>
  /\ thrown' = ""
  /\ authChecks' = 0
  /\ rateGrants' = 0
  /\ exchanged' = FALSE
  /\ UNCHANGED <<now, accessToken, tokenExpiry, realExpiry, lastRequestTime,
                 lastSent, outsideClient>>

\* a credential exchange whatever the cached token
needsAuthAlways(token, expiry, at) == TRUE

\* !this.accessToken || Date.now() >= this.tokenExpiry
needsAuth(token, expiry, at) == token = 0 \/ at >= expiry

\* ensureAuthenticated(), once, before the loop
ensureAuthenticated ==
  /\ cpc = "ensureAuthenticated"
  /\ IF needsAuth(accessToken, tokenExpiry, now)
     THEN \E expiresIn \in ExpiresIn :
            LET a == authenticate(expiresIn, now + Latency) IN
            /\ now' = now + Latency
            /\ accessToken' = a.accessToken
            /\ tokenExpiry' = a.tokenExpiry
            /\ realExpiry' = granted(expiresIn, now + Latency)
            /\ cpc' = IF a.ok THEN "waitForRateLimit" ELSE "threw"
            /\ thrown' = IF a.ok THEN "" ELSE "Reddit authentication failed"
            /\ exchanged' = TRUE
     ELSE /\ cpc' = "waitForRateLimit"
          /\ exchanged' = FALSE
          /\ UNCHANGED <<now, accessToken, tokenExpiry, realExpiry, thrown>>
  /\ waited' = 0
  /\ authChecks' = authChecks + 1
  /\ UNCHANGED <<calls, lastRequestTime, attempt, httpAttempts, response,
                 statuses, rateGrants, lastSent, outsideClient>>

\* waitForRateLimit(), once, before the loop: the timer fires after waitTime
waitForRateLimit ==
  /\ cpc = "waitForRateLimit"
  /\ LET timeSinceLastRequest == now - lastRequestTime
         waitTime == IF timeSinceLastRequest < minRequestInterval
                     THEN minRequestInterval - timeSinceLastRequest
                     ELSE 0
     IN /\ now' = now + waitTime
        /\ waited' = waitTime
        /\ lastRequestTime' = now'
  /\ cpc' = "attempt"
  /\ rateGrants' = rateGrants + 1
  /\ exchanged' = FALSE
  /\ UNCHANGED <<calls, accessToken, tokenExpiry, realExpiry, attempt,
                 httpAttempts, response, statuses, thrown, authChecks,
                 lastSent, outsideClient>>

\* the delay handed to setTimeout after a 429: the header's string when
\* there is one, which the timer reads as a number of ms
retryAfter(r, k) ==
  IF r.retryAfter # << >> THEN r.retryAfter[1] ELSE (2 ^ k) * 1000

\* a backoff that grows by one second per attempt
backoffTimeLinear(k) == (k + 1) * 1000

\* Math.pow(2, attempt) * 1000
backoffTime(k) == (2 ^ k) * 1000

\* a loop that runs once more than retries says
dispatchInclusive(r) ==
  /\ cpc = "attempt"
  /\ attempt <= defaultRetries
  /\ httpAttempts' = httpAttempts + 1
  /\ response' = r
  /\ statuses' = Append(statuses, r.status)
  /\ lastSent' = now
  /\ UNCHANGED <<calls, lastRequestTime, authChecks, rateGrants, outsideClient>>

\* one iteration of the loop: the GET is dispatched and answered by r
dispatch(r) ==
  /\ cpc = "attempt"
  /\ attempt < defaultRetries
  /\ httpAttempts' = httpAttempts + 1
  /\ response' = r
  /\ statuses' = Append(statuses, r.status)
  /\ lastSent' = now
  /\ UNCHANGED <<calls, lastRequestTime, authChecks, rateGrants, outsideClient>>

\* return response.data
attemptSucceeds ==
  /\ dispatch(HttpResponse(200, << >>))
  /\ now' = now + Latency
  /\ cpc' = "returned"
  /\ waited' = 0
  /\ exchanged' = FALSE
  /\ UNCHANGED <<accessToken, tokenExpiry, realExpiry, attempt, thrown>>

\* status 429: sleep, continue
attemptRateLimited ==
  \E r \in Responses :
    /\ r.status = 429
    /\ dispatch(r)
    /\ waited' = retryAfter(r, attempt)
    /\ now' = now + Latency + waited'
    /\ attempt' = attempt + 1
    /\ exchanged' = FALSE
    /\ UNCHANGED <<cpc, accessToken, tokenExpiry, realExpiry, thrown>>

\* status 401: authenticate(), continue; authenticate may throw
attemptUnauthorized ==
  /\ dispatch(HttpResponse(401, << >>))
  /\ \E expiresIn \in ExpiresIn :
       LET a == authenticate(expiresIn, now + Latency + Latency) IN
       /\ now' = now + Latency + Latency
       /\ accessToken' = a.accessToken
       /\ tokenExpiry' = a.tokenExpiry
       /\ realExpiry' = granted(expiresIn, now + Latency + Latency)
       /\ cpc' = IF a.ok THEN "attempt" ELSE "threw"
       /\ thrown' = IF a.ok THEN "" ELSE "Reddit authentication failed"
       /\ attempt' = IF a.ok THEN attempt + 1 ELSE attempt
  /\ waited' = 0
  /\ exchanged' = TRUE

\* status >= 500: sleep backoffTime, continue
attemptServerError ==
  \E r \in Responses :
    /\ r.status >= 500
    /\ dispatch(r)
    /\ waited' = backoffTime(attempt)
    /\ now' = now + Latency + waited'
    /\ attempt' = attempt + 1
    /\ exchanged' = FALSE
    /\ UNCHANGED <<cpc, accessToken, tokenExpiry, realExpiry, thrown>>

\* an error of another kind retried like a server error
onOtherErrorRetry(k) ==
  [cpc |-> "attempt", attempt |-> k + 1, waited |-> backoffTime(k),
   thrown |-> ""]

\* "Other errors - don't retry": throw error
onOtherError(k) ==
  [cpc |-> "threw", attempt |-> k, waited |-> 0, thrown |-> "request failed"]

\* another status, or no response at all (status undefined: no comparison
\* of the classification holds)
attemptFails ==
  \E r \in Responses :
    /\ r.status # 200
    /\ r.status # 429
    /\ r.status # 401
    /\ ~(r.status >= 500)
    /\ dispatch(r)
    /\ cpc' = onOtherError(attempt).cpc
    /\ attempt' = onOtherError(attempt).attempt
    /\ waited' = onOtherError(attempt).waited
    /\ thrown' = onOtherError(attempt).thrown
    /\ now' = now + Latency + waited'
    /\ exchanged' = FALSE
    /\ UNCHANGED <<accessToken, tokenExpiry, realExpiry>>

\* the loop ran out: throw new Error('Max retries exceeded')
retriesExceeded ==
  /\ cpc = "attempt"
  /\ attempt >= defaultRetries
  /\ cpc' = "threw"
  /\ thrown' = "Max retries (3) exceeded"
  /\ waited' = 0
  /\ exchanged' = FALSE
  /\ UNCHANGED <<now, calls, accessToken, tokenExpiry, realExpiry,
                 lastRequestTime, attempt, httpAttempts, response, statuses,
                 authChecks, rateGrants, lastSent, outsideClient>>

\* the caller has the result of the call and goes on; the locals of the call
\* are gone
requestDone ==
  /\ cpc \in {"returned", "threw"}
  /\ cpc' = "idle"
  /\ attempt' = 0
  /\ httpAttempts' = 0
  /\ response' = NoResponse
  /\ waited' = 0
  /\ statuses' = << >>
  /\ thrown' = ""
  /\ authChecks' = 0
  /\ rateGrants' = 0
  /\ exchanged' = FALSE
  /\ UNCHANGED <<now, calls, accessToken, tokenExpiry, realExpiry,
                 lastRequestTime, lastSent, outsideClient>>

\* ----------------------------------------------------------- RedditFetcher

\* calculateTimeWindow(hours, days) at time `at` (ms); 0 stands for null
calculateTimeWindow(hours, days, at) ==
  LET windowMs == IF hours # 0
                  THEN hours * 60 * 60 * 1000
                  ELSE days * 24 * 60 * 60 * 1000
  IN (at - windowMs) \div 1000

\* testMode ? 5 : Infinity, compared with posts.length
belowMaxPosts(n, test) == (~test) \/ n < testModeLimit

\* fetchPosts(hours, days, testMode) is called by the first channel's worker
\* and runs up to its await of authenticate()
fetchPostsCalled ==
  /\ fpc = "idle"
  /\ 1 \in DOMAIN wpc
  /\ wpc[1] = "fetching"
  /\ \E w \in {<<1, 0>>, <<0, 1>>} :
       cutoffTime' = calculateTimeWindow(w[1], w[2], now)
  /\ testMode' \in BOOLEAN
  /\ fetched' = << >>
  /\ after' = FALSE
  /\ beforeReachedCutoff' = FALSE
  /\ fpc' = "authenticate"
  /\ logged' = "Fetching posts"
  /\ UNCHANGED <<children, pageRequests, treeRequests, ferror,
                 exchangeFailed, outsideFetch>>

\* client.authenticate() returned: the while condition holds (no post yet)
\* and the first page is requested
authenticateReturns ==
  /\ fpc = "authenticate"
  /\ fpc' = "page"
  /\ pageRequests' = pageRequests + 1
  /\ logged' = ""
  /\ UNCHANGED <<testMode, cutoffTime, children, after, fetched,
                 beforeReachedCutoff, treeRequests, ferror,
                 exchangeFailed, outsideFetch>>

\* client.authenticate() threw: the catch block rethrows
authenticateThrows ==
  /\ fpc = "authenticate"
  /\ fpc' = "threw"
  /\ ferror' = "Reddit authentication failed"
  /\ exchangeFailed' = TRUE
  /\ logged' = "Failed to fetch posts"
  /\ UNCHANGED <<testMode, cutoffTime, children, after, fetched,
                 beforeReachedCutoff, pageRequests, treeRequests, outsideFetch>>

\* fetchNewPosts returned this page, with a continuation token or without;
\* an empty page ends the loop
fetchNewPostsReturned(page, token) ==
  /\ fpc = "page"
  /\ children' = page
  /\ fpc' = IF page = << >> THEN "returned" ELSE "item"
  /\ logged' = IF page = << >> THEN "No more posts available" ELSE ""
  /\ after' = token
  /\ UNCHANGED <<testMode, cutoffTime, fetched, beforeReachedCutoff,
                 pageRequests, treeRequests, ferror,
                 exchangeFailed, outsideFetch>>

\* fetchNewPosts returned a page.  The feed is finite: its last page has no
\* continuation token.
fetchNewPostsReturns ==
  \E page \in Pages(cutoffTime) :
    \E token \in (IF pageRequests < MaxPages THEN BOOLEAN ELSE {FALSE}) :
      fetchNewPostsReturned(page, token)

\* why a request of the RedditClient throws: the credential exchange of
\* ensureAuthenticated or of the 401 branch failed, or makeRequest gave up
RequestErrors == {"Reddit authentication failed", "request failed"}

\* a page failure after which fetchPosts returns what it has
onPageErrorSwallowed ==
  [fpc |-> "returned", ferror |-> "feed page request failed"]

\* the catch block of fetchPosts: log and `throw error`
onPageError ==
  [fpc |-> "threw", ferror |-> "feed page request failed"]

\* fetchNewPosts threw: the catch block rethrows
fetchNewPostsThrows ==
  /\ fpc = "page"
  /\ fpc' = onPageError.fpc
  /\ ferror' = onPageError.ferror
  /\ \E cause \in RequestErrors :
       exchangeFailed' =
         (exchangeFailed \/ cause = "Reddit authentication failed")
  /\ logged' = "Failed to fetch posts"
  /\ UNCHANGED <<testMode, cutoffTime, children, after, fetched,
                 beforeReachedCutoff, pageRequests, treeRequests, outsideFetch>>

\* a cutoff check that never finds a post too old
pastWindowNever(created, cutoff) == FALSE

\* "Check if we've gone past our time window"
pastWindow(created, cutoff) == created < cutoff

\* "Skip deleted/removed posts"
removedPost(data) ==
  data.author = "[deleted]" \/ data.selftext = "[removed]"

\* one iteration of the for loop, up to its continue, its break or its await
\* of extractPostData, which awaits fetchPostComments
nextChild ==
  /\ fpc = "item"
  /\ children # << >>
  /\ LET postData == Head(children) IN
       IF postData.kind # "t3"
       THEN /\ children' = Tail(children)
            /\ logged' = ""
            /\ UNCHANGED <<fpc, beforeReachedCutoff, treeRequests>>
       ELSE IF pastWindow(postData.data.created_utc, cutoffTime)
       THEN /\ beforeReachedCutoff' = TRUE
            /\ children' = << >>
            /\ logged' = "Reached posts older than cutoff time"
            /\ UNCHANGED <<fpc, treeRequests>>
       ELSE IF removedPost(postData.data)
       THEN /\ children' = Tail(children)
            /\ logged' = ""
            /\ UNCHANGED <<fpc, beforeReachedCutoff, treeRequests>>
       ELSE /\ fpc' = "comments"
            /\ treeRequests' = treeRequests + 1
            /\ logged' = "Processing post"
            /\ UNCHANGED <<children, beforeReachedCutoff>>
  /\ UNCHANGED <<testMode, cutoffTime, after, fetched, pageRequests, ferror,
                 exchangeFailed, outsideFetch>>

\* a comment failure that escapes extractPostData
onCommentsErrorRethrown(cs) ==
  [pushed |-> FALSE, comments |-> << >>]

\* the catch block of extractPostData: log, comments stays []
onCommentsError(cs) ==
  [pushed |-> TRUE, comments |-> << >>]

\* a test mode that never finds its limit reached
capReachedNever(n, test) == FALSE

\* testMode && posts.length >= maxPosts
capReached(n, test) == test /\ n >= testModeLimit

RECURSIVE withIds(_, _)

\* comment ids are unique across Reddit: the comments the model numbers
\* 1, 2, ... in the listing of a post get the numbers base + 1, base + 2, ...
withIds(cs, base) ==
  [k \in 1..Len(cs) |->
     [cs[k] EXCEPT !.id = base + @, !.replies = withIds(@, base)]]

\* the id of the n-th post the fetcher asks the comments of; post ids are
\* unique and no comment id
postId(n) == 100 * n

\* what fetchPosts pushes for the child at hand with these comments
fetchedPost(cs) ==
  [id |-> postId(treeRequests),
   created_utc |-> Head(children).data.created_utc,
   subreddit |-> "r/channel",
   comments |-> withIds(cs, postId(treeRequests))]

\* posts.push(...) of the child at hand with these comments, then the test
\* mode check
pushPost(cs) ==
  /\ fetched' = Append(fetched, fetchedPost(cs))
  /\ IF capReached(Len(fetched'), testMode)
     THEN /\ beforeReachedCutoff' = TRUE
          /\ children' = << >>
     ELSE /\ children' = Tail(children)
          /\ UNCHANGED beforeReachedCutoff
  /\ fpc' = "item"
  /\ UNCHANGED <<testMode, cutoffTime, after, pageRequests, treeRequests,
                 ferror, outsideFetch>>

\* fetchPostComments returned this comment listing of the post
fetchPostCommentsReturned(listing) ==
  /\ fpc = "comments"
  /\ pushPost(flattenComments(listing, 0))
  /\ logged' = "Fetched comments"
  /\ UNCHANGED exchangeFailed

fetchPostCommentsReturns ==
  \E listing \in Listings(FeedReplies) : fetchPostCommentsReturned(listing)

\* fetchPostComments threw
fetchPostCommentsThrows ==
  /\ fpc = "comments"
  /\ IF onCommentsError(<< >>).pushed
     THEN pushPost(onCommentsError(<< >>).comments)
     ELSE /\ fpc' = "threw"
          /\ ferror' = "comment request failed"
          /\ UNCHANGED <<testMode, cutoffTime, children, after, fetched,
                         beforeReachedCutoff, pageRequests, treeRequests,
                         outsideFetch>>
  /\ \E cause \in RequestErrors :
       exchangeFailed' =
         (exchangeFailed \/ cause = "Reddit authentication failed")
  /\ logged' = "Failed to fetch comments"

\* a loop that asks for the next page whenever the page had a token
loopGoesOnWithToken(token, reachedCutoff, n, test) == token

\* `if (!after) break`, then the while condition
\* !beforeReachedCutoff && posts.length < maxPosts
loopGoesOn(token, reachedCutoff, n, test) ==
  token /\ ~reachedCutoff /\ belowMaxPosts(n, test)

\* the for loop is over: after = data.data.after; without token the loop
\* ends, with one the while condition decides
pageDone ==
  /\ fpc = "item"
  /\ children = << >>
  /\ IF loopGoesOn(after, beforeReachedCutoff, Len(fetched), testMode)
     THEN /\ fpc' = "page"
          /\ pageRequests' = pageRequests + 1
          /\ logged' = ""
     ELSE /\ fpc' = "returned"
          /\ logged' = "Fetched posts"
          /\ UNCHANGED pageRequests
  /\ UNCHANGED <<testMode, cutoffTime, children, after, fetched,
                 beforeReachedCutoff, treeRequests, ferror,
                 exchangeFailed, outsideFetch>>

\* the worker's await of fetchPosts returns what the fetcher collected
fetchWindowReturns ==
  /\ fpc = "returned"
  /\ fetchPostsReturned(1, Len(fetched))

\* the worker's await of fetchPosts throws what the fetcher threw
fetchWindowThrows ==
  /\ fpc = "threw"
  /\ fetchPostsThrows(1)

\* flattenComments(commentData) on a listing of its own
flatten ==
  /\ ~flattenDone
  /\ comments' = flattenComments(commentData, 0)
  /\ flattenDone' = TRUE
  /\ UNCHANGED <<commentData, outsideFlatten>>

\* ------------------------------------------------------- VectorDBIngestion

\* comment ids with the post's id put in front for every comment, nested
\* or not
commentDocIdRootOnly(pid, comment, parentCommentId) == <<pid>>

\* parentCommentId ? `${postId}_${comment.id}` : comment.id; a string made
\* of two ids is the pair of them, 0 is null
commentDocId(pid, comment, parentCommentId) ==
  IF parentCommentId # 0 THEN <<pid, comment>> ELSE <<comment>>

\* a transformation that leaves the replies of comments out
transformCommentsTopLevel(cs, pid, subreddit, parentCommentId) ==
  [k \in 1..Len(cs) |->
     [platform |-> subreddit,
      id |-> commentDocId(pid, cs[k].id, parentCommentId),
      isComment |-> TRUE]]

RECURSIVE transformCommentsToVectorFormat(_, _, _, _)

transformCommentsToVectorFormat(cs, pid, subreddit, parentCommentId) ==
  IF cs = << >>
  THEN << >>
  ELSE LET comment == Head(cs)
           commentItem == [platform |-> subreddit,
                           id |-> commentDocId(pid, comment.id,
                                               parentCommentId),
                           isComment |-> TRUE]
           replyItems ==
             IF comment.replies # << >>
             THEN transformCommentsToVectorFormat(comment.replies, pid,
                                                  subreddit, comment.id)
             ELSE << >>
       IN <<commentItem>> \o replyItems
            \o transformCommentsToVectorFormat(Tail(cs), pid, subreddit,
                                               parentCommentId)

RECURSIVE countComments(_)

\* RedditFetcher.countComments: the comments of an array, replies included
countComments(cs) ==
  IF cs = << >>
  THEN 0
  ELSE 1 + countComments(Head(cs).replies) + countComments(Tail(cs))

\* platformName || subreddit
platformOf(redditPost, name) ==
  IF name # "" THEN name ELSE redditPost.subreddit

\* a transformation whose ids depend on how often it has been called
transformPostCounted(redditPost, name) ==
  << [platform |-> platformOf(redditPost, name),
      id |-> <<redditPost.id, tcalls>>,
      isComment |-> FALSE] >>

transformPostToVectorFormat(redditPost, name) ==
  LET postItem == [platform |-> platformOf(redditPost, name),
                   id |-> <<redditPost.id>>,
                   isComment |-> FALSE]
  IN <<postItem>>
       \o (IF redditPost.comments # << >>
           THEN transformCommentsToVectorFormat(redditPost.comments,
                                                redditPost.id,
                                                platformOf(redditPost, name),
                                                0)
           ELSE << >>)

\* the k-th post of a batch with these flattened comments
RedditPost(k, cs) ==
  [id |-> postId(k), created_utc |-> 0, subreddit |-> "r/channel",
   comments |-> withIds(cs, postId(k))]

\* the comment arrays flattenComments can produce from a listing of at most
\* n comments
CommentArrays(n) == { flattenComments(l, 0) : l \in Listings(n) }

\* the batches of at most MaxBatch posts of at most IngestReplies comments
Batches ==
  UNION { { [k \in 1..n |-> RedditPost(k, f[k])] :
              f \in [1..n -> CommentArrays(IngestReplies)] } :
          n \in 1..MaxBatch }

\* what the store can answer to a POST: success, an authentication error,
\* a validation error, rate limiting, a server error, another client error;
\* -1 is an error without response
StoreStatuses == {200, 401, 403, 422, 429, 500, 404, -1}

\* ingestPosts(redditPosts, platformName, testMode) is called
ingestPostsCalled(redditPosts, name) ==
  /\ ipc = "idle"
  /\ ipc' = "post"
  /\ batch' = redditPosts
  /\ platformName' = name
  /\ postIdx' = 1
  /\ results' = NoResults
  /\ produced' = << >>
  /\ items' = << >>
  /\ itemIdx' = 0
  /\ iattempt' = 0
  /\ docWrites' = 0
  /\ lastStatus' = 0
  /\ iwaited' = 0
  /\ UNCHANGED outsideIngest

\* the outer loop takes the next post: transform, results.total, and the
\* first POST of its first item is dispatched
ingestNextPost ==
  /\ ipc = "post"
  /\ postIdx <= Len(batch)
  /\ items' = transformPostToVectorFormat(batch[postIdx], platformName)
  /\ produced' = produced \o items'
  /\ results' = [results EXCEPT !.total = @ + Len(items')]
  /\ itemIdx' = 1
  /\ iattempt' = 0
  /\ docWrites' = 1
  /\ ipc' = "write"
  /\ iwaited' = 0
  /\ lastStatus' = 0
  /\ UNCHANGED <<batch, platformName, postIdx, outsideIngest>>

\* the outer loop is over: return results
ingestPostsDone ==
  /\ ipc = "post"
  /\ postIdx > Len(batch)
  /\ ipc' = "returned"
  /\ iwaited' = 0
  /\ lastStatus' = 0
  /\ UNCHANGED <<batch, platformName, postIdx, items, itemIdx, iattempt,
                 results, produced, docWrites, outsideIngest>>

\* results after a successful ingestItem
recordSuccess(res, item) ==
  [res EXCEPT !.successful = @ + 1,
              !.comments = IF item.isComment THEN @ + 1 ELSE @,
              !.posts = IF item.isComment THEN @ ELSE @ + 1]

\* results after a failure that is not counted
recordNothing(res, id, error, details) == res

\* results after a failed ingestItem, or after the catch block of a post;
\* details "" is undefined
recordFailure(res, id, error, details) ==
  [res EXCEPT !.failed = @ + 1,
              !.errors = Append(@, [id |-> id, error |-> error,
                                    details |-> details])]

\* an inner loop that goes on with the last item of the post
nextItemLast(slept) ==
  /\ iwaited' = slept + itemDelay
  /\ iattempt' = 0
  /\ IF itemIdx < Len(items)
     THEN /\ itemIdx' = Len(items)
          /\ docWrites' = 1
          /\ UNCHANGED <<ipc, postIdx>>
     ELSE /\ ipc' = "post"
          /\ postIdx' = postIdx + 1
          /\ UNCHANGED <<itemIdx, docWrites>>
  /\ UNCHANGED <<batch, platformName, items, produced, outsideIngest>>

\* the inner loop after the result of an item, which ingestItem returned
\* after it had slept `slept` ms: sleep itemDelay, then the next item of the
\* post is written, or the outer loop goes on
nextItem(slept) ==
  /\ iwaited' = slept + itemDelay
  /\ iattempt' = 0
  /\ IF itemIdx < Len(items)
     THEN /\ itemIdx' = itemIdx + 1
          /\ docWrites' = 1
          /\ UNCHANGED <<ipc, postIdx>>
     ELSE /\ ipc' = "post"
          /\ postIdx' = postIdx + 1
          /\ UNCHANGED <<itemIdx, docWrites>>
  /\ UNCHANGED <<batch, platformName, items, produced, outsideIngest>>

\* the POST was answered 2xx: ingestItem returns success
writeSucceeds ==
  /\ ipc = "write"
  /\ lastStatus' = 200
  /\ results' = recordSuccess(results, items[itemIdx])
  /\ nextItem(0)

\* the message of the error ingestItem throws on 401 and 403
AuthFailed == "Vector DB authentication failed. Check your API token."

\* the POST was answered 401 or 403: ingestItem throws, the catch block of
\* the post at hand records one failure under the post's id and the outer
\* loop goes on
writeUnauthorized ==
  /\ ipc = "write"
  /\ lastStatus' \in {401, 403}
  /\ results' = recordFailure(results, <<batch[postIdx].id>>, AuthFailed, "")
  /\ ipc' = "post"
  /\ postIdx' = postIdx + 1
  /\ iwaited' = 0
  /\ UNCHANGED <<batch, platformName, items, itemIdx, iattempt, produced,
                 docWrites, outsideIngest>>

\* the POST was answered 422: ingestItem returns the validation failure
writeInvalid ==
  /\ ipc = "write"
  /\ lastStatus' = 422
  /\ results' = recordFailure(results, items[itemIdx].id, "Validation error",
                              "validation detail")
  /\ nextItem(0)

\* a retry loop that goes on for ever
retryLeftAlways(k) == TRUE

\* attempt++ ; attempt < this.maxRetries
retryLeft(k) == k + 1 < maxRetries

\* the POST was answered 429 or 5xx and the loop has attempts left: sleep
\* Math.pow(2, attempt) * 1000, POST again
writeRetried ==
  /\ ipc = "write"
  /\ retryLeft(iattempt)
  /\ \E st \in StoreStatuses :
       /\ st = 429 \/ st >= 500
       /\ lastStatus' = st
  /\ iwaited' = backoffTime(iattempt)
  /\ iattempt' = iattempt + 1
  /\ docWrites' = docWrites + 1
  /\ UNCHANGED <<ipc, batch, platformName, postIdx, items, itemIdx, results,
                 produced, outsideIngest>>

\* the POST was answered 429 or 5xx on the last attempt: sleep, the loop
\* ends and ingestItem returns 'Max retries exceeded'; the sleep of the
\* inner loop of ingestPosts follows
writeRetriesExceeded ==
  /\ ipc = "write"
  /\ ~retryLeft(iattempt)
  /\ \E st \in StoreStatuses :
       /\ st = 429 \/ st >= 500
       /\ lastStatus' = st
  /\ results' = recordFailure(results, items[itemIdx].id,
                              "Max retries (3) exceeded", "")
  /\ nextItem(backoffTime(iattempt))

\* the POST failed otherwise: ingestItem returns the failure
writeFails ==
  /\ ipc = "write"
  /\ \E st \in StoreStatuses :
       /\ st \notin {200, 401, 403, 422, 429}
       /\ ~(st >= 500)
       /\ lastStatus' = st
  /\ results' = recordFailure(results, items[itemIdx].id, "request failed",
                              "")
  /\ nextItem(0)

\* the workerData runChannelWorker builds from an entry of the channels
\* array: clientId, clientSecret, subreddit, hours, days and testMode, so the
\* `platform` processChannel destructures is undefined ("")
workerData(channel) ==
  [subreddit |-> channel.subreddit, platform |-> ""]

\* the worker's call vectorDB.ingestPosts(posts, platform, testMode)
ingestBatchCalled ==
  /\ 1 \in DOMAIN wpc
  /\ wpc[1] = "ingesting"
  /\ ingestPostsCalled(fetched, workerData(enabledChannels[1]).platform)

\* stats without the comments
statsOfPostsOnly(res) ==
  [posts |-> res.posts, comments |-> 0, successful |-> res.successful,
   failed |-> res.failed]

\* the stats of the worker's 'complete' message
statsOf(res) ==
  [posts |-> res.posts, comments |-> res.comments,
   successful |-> res.successful, failed |-> res.failed]

\* the worker's await of ingestPosts returns the summary of the call
ingestBatchReturns ==
  /\ ipc = "returned"
  /\ 1 \in DOMAIN wpc
  /\ ingestPostsReturned(1, statsOf(results))

\* transformPostToVectorFormat(tpost, tplatform), called on its own
transform ==
  /\ tcalls < 2
  /\ titems' = transformPostToVectorFormat(tpost, tplatform)
  /\ tprev' = titems
  /\ tcalls' = tcalls + 1
  /\ UNCHANGED <<tpost, tplatform, outsideTransform>>

\* ------------------------------------------------------- index.js, main

\* the promises limit() has started and that have not settled
activeCount(w, p) ==
  Cardinality({ c \in DOMAIN w : w[c] # "queued" /\ p[c] = "pending" })

\* a limiter that starts whatever is queued
slotFreeAlways(w, p) == TRUE

\* pLimit(3): activeCount < concurrency
slotFree(w, p) == activeCount(w, p) < MaxConcurrent

RECURSIVE dequeue(_, _)

\* p-limit starts queued functions in the order of the limit() calls while
\* a slot is free: runChannelWorker creates the channel's worker
dequeue(w, p) ==
  IF (\E c \in DOMAIN w : w[c] = "queued") /\ slotFree(w, p)
  THEN LET c == CHOOSE c \in DOMAIN w :
                  /\ w[c] = "queued"
                  /\ \A d \in DOMAIN w : w[d] = "queued" => c <= d
       IN dequeue([w EXCEPT ![c] = "running"], p)
  ELSE w

\* main: channels.map(channel => limit(() => runChannelWorker(...)))
mainStartsWorkers ==
  /\ cliChannels > 0
  /\ cliWorker = << >>
  /\ cliPromise' = [c \in 1..cliChannels |-> "pending"]
  /\ cliWorker' = dequeue([c \in 1..cliChannels |-> "queued"], cliPromise')
  /\ resultError' = [c \in 1..cliChannels |-> FALSE]
  /\ UNCHANGED <<cliChannels, outsideCli>>

\* worker.on('message') of index.js for a message of type 'error'
cliErrorMessage(c) ==
  /\ cliWorker[c] = "running"
  /\ ~resultError[c]
  /\ resultError' = [resultError EXCEPT ![c] = TRUE]
  /\ UNCHANGED <<cliChannels, cliWorker, cliPromise, outsideCli>>

\* worker.on('error') of index.js: reject; the limiter takes the next
\* function off its queue before 'exit' is emitted
cliWorkerError(c) ==
  /\ cliWorker[c] = "running"
  /\ resultError' = [resultError EXCEPT ![c] = TRUE]
  /\ cliPromise' = [cliPromise EXCEPT ![c] = settle(@, "rejected")]
  /\ cliWorker' = dequeue([cliWorker EXCEPT ![c] = "errored"], cliPromise')
  /\ UNCHANGED <<cliChannels, outsideCli>>

\* worker.on('exit') of index.js: reject for a code other than 0 when no
\* error is recorded, resolve otherwise; then the limiter goes on
cliWorkerExit(c, code) ==
  /\ cliWorker[c] \in {"running", "errored"}
  /\ cliWorker[c] = "errored" => code # 0
  /\ cliPromise' =
       [cliPromise EXCEPT ![c] =
          settle(@, IF code # 0 /\ ~resultError[c]
                    THEN "rejected" ELSE "resolved")]
  /\ resultError' =
       [resultError EXCEPT ![c] = @ \/ code # 0]
  /\ cliWorker' = dequeue([cliWorker EXCEPT ![c] = "exited"], cliPromise')
  /\ UNCHANGED <<cliChannels, outsideCli>>

\* ---------------------------------------------------------- specifications

Next ==
  \/ createJob
  \/ startJob
  \/ startJobSettled
  \/ \E i \in DOMAIN wpc : processChannelStart(i)
  \/ \E i \in DOMAIN wpc : fetchPostsThrows(i)
  \/ \E i \in DOMAIN wpc : unhandledRejection(i)
  \/ \E i \in DOMAIN wpc : fetchPostsReturns(i)
  \/ \E i \in DOMAIN wpc : testConnectionReturns(i)
  \/ \E i \in DOMAIN wpc : ingestPostsReturns(i)
  \/ \E i \in DOMAIN wpc : workerMessage(i)
  \/ \E i \in DOMAIN wpc : workerError(i)
  \/ \E i \in DOMAIN wpc : workerExit(i)

\* a job created by the API route of a server nobody is subscribed to
Spec == Init /\ [][Next]_vars

\* ------------------------------------------------------------ deleteJob

\* the ids DELETE /api/jobs/:id is called with: the job's and an unknown one
JobIds == {1, 2}

\* a deleteJob without the check of the status
deletableAlways(status) == TRUE

\* if (job.status === 'running') throw
deletable(status) == status # "running"

\* deleteJob(jobId): false for an unknown id, an exception for a running
\* job, otherwise the job leaves the map and job_deleted is published
deleteJob(jobId) ==
  /\ IF jobId \notin jobs
     THEN /\ deleteResult' = <<jobId, "false">>
          /\ published' = << >>
          /\ lastNotify' = NoDelivery
          /\ UNCHANGED <<jobs, history>>
     ELSE IF ~deletable(job.status)
     THEN /\ deleteResult' = <<jobId, "threw">>
          /\ published' = << >>
          /\ lastNotify' = NoDelivery
          /\ UNCHANGED <<jobs, history>>
     ELSE \E throwing \in SUBSET SubscriberSet :
            /\ jobs' = jobs \ {jobId}
            /\ published' = <<Event("job_deleted", 0, NULL, << >>, NULL)>>
            /\ lastNotify' = notifySubscribers(subscribers, throwing)
            /\ history' = seen(history, published')
            /\ deleteResult' = <<jobId, "true">>
  /\ UNCHANGED <<nch, enabledChannels, clock, job, promise, workerVars,
                 subscribers, outsideJob>>

\* the job manager with the DELETE route
NextRegistry ==
  \/ createJob
  \/ startJob
  \/ startJobSettled
  \/ \E i \in DOMAIN wpc : processChannelStart(i)
  \/ \E i \in DOMAIN wpc : fetchPostsThrows(i)
  \/ \E i \in DOMAIN wpc : fetchPostsReturns(i)
  \/ \E i \in DOMAIN wpc : testConnectionReturns(i)
  \/ \E i \in DOMAIN wpc : ingestPostsReturns(i)
  \/ \E i \in DOMAIN wpc : workerMessage(i)
  \/ \E i \in DOMAIN wpc : workerExit(i)
  \/ \E jobId \in JobIds : deleteJob(jobId)

SpecRegistry == Init /\ [][NextRegistry]_vars

\* the event loop handles what is pending, worker threads run on their own
\* threads and their network calls return; nothing says a worker must crash
Scheduled ==
  \/ createJob
  \/ startJob
  \/ startJobSettled
  \/ \E i \in DOMAIN wpc : processChannelStart(i)
  \/ \E i \in DOMAIN wpc : fetchPostsThrows(i)
  \/ \E i \in DOMAIN wpc : fetchPostsReturns(i)
  \/ \E i \in DOMAIN wpc : testConnectionReturns(i)
  \/ \E i \in DOMAIN wpc : ingestPostsReturns(i)
  \/ \E i \in DOMAIN wpc : workerMessage(i)
  \/ \E i \in DOMAIN wpc : workerExit(i)

FairSpec == Spec /\ WF_vars(Scheduled)

\* the start of a job of one channel more than the documented concurrency:
\* startJob up to its await, every worker up to its first await, and the
\* parent's handling of what the workers have posted until then
InitWide ==
  /\ nch = MaxConcurrent + 1
  /\ InitJob
  /\ InitClient
  /\ InitFetch
  /\ InitIngest
  /\ InitTransform
  /\ InitCli
  /\ InitFlatten

NextWide ==
  \/ createJob
  \/ startJob
  \/ \E i \in DOMAIN wpc : processChannelStart(i)
  \/ \E i \in DOMAIN wpc : workerMessage(i)

SpecWide == InitWide /\ [][NextWide]_vars

\* a job while WebSocket clients connect and disconnect
InitNotify ==
  /\ nch \in 1..NotifyChannels
  /\ InitJob
  /\ InitClient
  /\ InitFetch
  /\ InitIngest
  /\ InitTransform
  /\ InitCli
  /\ InitFlatten

NextNotify ==
  \/ Next
  \/ \E s \in Subscribers : subscribe(s)
  \/ \E s \in Subscribers : unsubscribe(s)

SpecNotify == InitNotify /\ [][NextNotify]_vars

\* the requests of one channel's RedditClient
NextClient ==
  \/ makeRequest
  \/ ensureAuthenticated
  \/ waitForRateLimit
  \/ attemptSucceeds
  \/ attemptRateLimited
  \/ attemptUnauthorized
  \/ attemptServerError
  \/ attemptFails
  \/ retriesExceeded
  \/ requestDone

InitOneClient ==
  /\ nch = 1
  /\ InitJob
  /\ InitClient
  /\ InitFetch
  /\ InitIngest
  /\ InitTransform
  /\ InitCli
  /\ InitFlatten

SpecClient == InitOneClient /\ [][NextClient]_vars

\* one channel's job with its fetcher in detail; the worker thread does not
\* crash
NextFetch ==
  \/ createJob
  \/ startJob
  \/ startJobSettled
  \/ \E i \in DOMAIN wpc : processChannelStart(i)
  \/ fetchPostsCalled
  \/ authenticateReturns
  \/ authenticateThrows
  \/ fetchNewPostsReturns
  \/ fetchNewPostsThrows
  \/ nextChild
  \/ fetchPostCommentsReturns
  \/ fetchPostCommentsThrows
  \/ pageDone
  \/ fetchWindowReturns
  \/ fetchWindowThrows
  \/ \E i \in DOMAIN wpc : testConnectionReturns(i)
  \/ \E i \in DOMAIN wpc : ingestPostsReturns(i)
  \/ \E i \in DOMAIN wpc : workerMessage(i)
  \/ \E i \in DOMAIN wpc : workerExit(i)

SpecFetch == InitOneClient /\ [][NextFetch]_vars

FairSpecFetch == SpecFetch /\ WF_vars(NextFetch)

\* flattenComments on every comment listing of at most MaxReplies comments
InitFlattenAny ==
  /\ nch = 1
  /\ InitJob
  /\ InitClient
  /\ InitFetch
  /\ InitIngest
  /\ InitTransform
  /\ InitCli
  /\ commentData \in Listings(MaxReplies)
  /\ comments = << >>
  /\ flattenDone = FALSE

SpecFlatten == InitFlattenAny /\ [][flatten]_vars

\* ingestPosts on every batch, against a store that answers as it likes
InitIngestAny ==
  /\ nch = 1
  /\ InitJob
  /\ InitClient
  /\ InitFetch
  /\ InitFlatten
  /\ InitTransform
  /\ InitCli
  /\ ipc = "idle"
  /\ batch \in Batches
  /\ platformName = ""
  /\ postIdx = 0
  /\ items = << >>
  /\ itemIdx = 0
  /\ iattempt = 0
  /\ results = NoResults
  /\ produced = << >>
  /\ docWrites = 0
  /\ lastStatus = 0
  /\ iwaited = 0

NextIngest ==
  \/ \E name \in {"", "tag"} : ingestPostsCalled(batch, name)
  \/ ingestNextPost
  \/ ingestPostsDone
  \/ writeSucceeds
  \/ writeUnauthorized
  \/ writeInvalid
  \/ writeRetried
  \/ writeRetriesExceeded
  \/ writeFails

SpecIngest == InitIngestAny /\ [][NextIngest]_vars

\* processChannel calls ingestPosts after fetchPosts has returned: the
\* requests of the RedditClient are over when the first document is written
ingestAfterFetch ==
  /\ cpc = "idle"
  /\ calls = MaxCalls
  /\ ingestPostsCalled(<<RedditPost(1, << >>)>>, "")

\* the requests of a channel's RedditClient, then the ingestion of one post
\* without comments, against upstreams that answer as they like
NextBackoff ==
  \/ makeRequest
  \/ ensureAuthenticated
  \/ waitForRateLimit
  \/ attemptSucceeds
  \/ attemptRateLimited
  \/ attemptUnauthorized
  \/ attemptServerError
  \/ attemptFails
  \/ retriesExceeded
  \/ requestDone
  \/ ingestAfterFetch
  \/ ingestNextPost
  \/ ingestPostsDone
  \/ writeSucceeds
  \/ writeUnauthorized
  \/ writeInvalid
  \/ writeRetried
  \/ writeRetriesExceeded
  \/ writeFails

SpecBackoff == InitOneClient /\ [][NextBackoff]_vars

\* the comment listings without or with MaxReplies comments left
ScenarioListings ==
  { l \in Listings(MaxReplies) :
      countComments(flattenComments(l, 0)) \in {0, MaxReplies} }

\* a job of one channel from its creation to its end: one page of the feed,
\* no request fails, the store accepts every document
NextEndToEnd ==
  \/ \E channelConfig \in ChannelConfigs :
       createJobWith([i \in Channels |->
                       enabledChannel("r/channel", channelConfig)])
  \/ startJob
  \/ startJobSettled
  \/ \E i \in DOMAIN wpc : processChannelStart(i)
  \/ fetchPostsCalled
  \/ authenticateReturns
  \/ \E page \in Pages(cutoffTime) : fetchNewPostsReturned(page, FALSE)
  \/ nextChild
  \/ \E listing \in ScenarioListings : fetchPostCommentsReturned(listing)
  \/ pageDone
  \/ fetchWindowReturns
  \/ \E i \in DOMAIN wpc : testConnectionReturns(i)
  \/ ingestBatchCalled
  \/ ingestNextPost
  \/ writeSucceeds
  \/ ingestPostsDone
  \/ ingestBatchReturns
  \/ \E i \in DOMAIN wpc : workerMessage(i)
  \/ \E i \in DOMAIN wpc : workerExit(i)

SpecEndToEnd == InitOneClient /\ [][NextEndToEnd]_vars

\* transformPostToVectorFormat on every post of at most MaxReplies comments,
\* with and without platform name
InitTransformAny ==
  /\ nch = 1
  /\ InitJob
  /\ InitClient
  /\ InitFetch
  /\ InitFlatten
  /\ InitIngest
  /\ InitCli
  /\ tpost \in { RedditPost(k, cs) :
                  k \in 1..MaxBatch, cs \in CommentArrays(MaxReplies) }
  /\ tplatform \in {"", "tag"}
  /\ titems = << >>
  /\ tprev = << >>
  /\ tcalls = 0

SpecTransform == InitTransformAny /\ [][transform]_vars

\* the command line's main with 1 to MaxCliChannels enabled channels
InitCliAny ==
  /\ nch = 1
  /\ InitJob
  /\ InitClient
  /\ InitFetch
  /\ InitFlatten
  /\ InitIngest
  /\ InitTransform
  /\ cliChannels \in 1..MaxCliChannels
  /\ cliWorker = << >>
  /\ cliPromise = << >>
  /\ resultError = << >>

NextCli ==
  \/ mainStartsWorkers
  \/ \E c \in DOMAIN cliWorker : cliErrorMessage(c)
  \/ \E c \in DOMAIN cliWorker : cliWorkerError(c)
  \/ \E c \in DOMAIN cliWorker : \E code \in {0, 1} : cliWorkerExit(c, code)

SpecCli == InitCliAny /\ [][NextCli]_vars

\* a worker thread that has started stops: processChannel terminates, and a
\* thread that threw exits
Exits ==
  \/ mainStartsWorkers
  \/ \E c \in DOMAIN cliWorker : \E code \in {0, 1} : cliWorkerExit(c, code)

FairSpecCli == SpecCli /\ WF_vars(Exits)

\* ------------------------------------------------------------------ claims

statusOf(i) == job.channels[i].status

\* C1: at no instant are more than MaxConcurrent channels of a job that
\* startJob runs in a running state (started, fetching, ingesting).
C1_ConcurrencyBound ==
  Cardinality({ i \in DOMAIN job.channels : statusOf(i) \in Running })
    <= MaxConcurrent

statOf(ch, field) == IF ch.stats = << >> THEN 0 ELSE ch.stats[1][field]

RECURSIVE sumStat(_, _)
sumStat(field, n) ==
  IF n = 0 THEN 0 ELSE sumStat(field, n - 1) + statOf(job.channels[n], field)

\* C2: when startJob has returned, every field of job.totalStats is the sum
\* of that field over the channels that have stats; a channel without stats
\* counts zero.
C2_TotalsAreSum ==
  job.status = "completed" =>
    \A field \in {"posts", "comments", "successful", "failed"} :
      job.totalStats[field] = sumStat(field, Len(job.channels))

\* a completed job with a channel that has failed documents in its stats and
\* a channel that failed without stats
C2_Witness ==
  /\ job.status = "completed"
  /\ \E i, j \in DOMAIN job.channels :
       /\ statOf(job.channels[i], "failed") > 0
       /\ statusOf(j) = "failed"
       /\ job.channels[j].stats = << >>

\* C3: a step in which one channel fails leaves every other channel, its
\* worker, its promise and its pending messages as they were; and once the
\* job runs, it gets completed with every channel in a terminal state.
C3_FailureIsolated ==
  /\ [][\A i \in DOMAIN wpc :
          (statusOf(i) # "failed" /\ job'.channels[i].status = "failed") =>
            \A j \in DOMAIN wpc \ {i} :
              /\ job'.channels[j] = job.channels[j]
              /\ wpc'[j] = wpc[j]
              /\ promise'[j] = promise[j]
              /\ inbox'[j] = inbox[j]]_vars
  /\ (job.status = "running" /\ wpc # << >>) ~>
       (/\ job.status = "completed"
        /\ \A i \in DOMAIN job.channels : statusOf(i) \in Terminal)

\* a completed job with a failed channel next to a completed one
C3_Witness ==
  /\ job.status = "completed"
  /\ \E i, j \in DOMAIN job.channels :
       /\ statusOf(i) = "failed"
       /\ statusOf(j) = "completed"
       /\ wpc[j] = "exited"

JobStatusSteps ==
  { <<"none", "pending">>, <<"pending", "running">>,
    <<"running", "completed">> }
  \cup { <<x, x>> : x \in {"none", "pending", "running", "completed"} }

\* C4: the status of a job only goes pending -> running -> completed, and
\* it has no other value.
C4_JobStatusPath ==
  [][(<<job.status, job'.status>> \in JobStatusSteps)]_vars

\* a completed job every channel of which failed
C4_Witness ==
  /\ job.status = "completed"
  /\ \A i \in DOMAIN job.channels : statusOf(i) = "failed"

rank(status) ==
  CASE status = "pending" -> 0
    [] status = "started" -> 1
    [] status = "fetching" -> 2
    [] status = "ingesting" -> 3
    [] status \in Terminal -> 4

\* C5: the status of a channel never moves backward, and a completed or
\* failed channel keeps its status.
C5_ChannelStatusForward ==
  [][\A i \in DOMAIN job.channels :
       /\ rank(job'.channels[i].status) >= rank(statusOf(i))
       /\ statusOf(i) \in Terminal => job'.channels[i].status = statusOf(i)]_vars

\* C6 as stated: a completed channel's ingestPosts was invoked and returned.
C6_CompletedOnlyAfterIngest ==
  \A i \in DOMAIN wpc : statusOf(i) = "completed" => ingestReturned[i]

\* C6 as amended: a completed channel's ingestPosts was invoked and
\* returned, or its fetchPosts returned no post.
C6_CompletedAfterIngestOrEmpty ==
  \A i \in DOMAIN wpc :
    statusOf(i) = "completed" => (ingestReturned[i] \/ posts[i] = 0)

\* a channel completed after its ingestion, its posts having been fetched
C6_Witness ==
  \E i \in DOMAIN wpc :
    statusOf(i) = "completed" /\ ingestReturned[i] /\ posts[i] > 0

eventStatus(e) ==
  CASE e.type = "channel_progress" -> e.status
    [] e.type = "channel_completed" -> "completed"
    [] e.type = "channel_error" -> "failed"
    [] OTHER -> NULL

\* C7: every change of a channel's status comes with exactly one published
\* event, of that channel, carrying the new status.
C7_StatusChangePublished ==
  [][\A i \in DOMAIN job.channels :
       job'.channels[i].status # statusOf(i) =>
         /\ Len(published') = 1
         /\ published'[1].channel = i
         /\ eventStatus(published'[1]) = job'.channels[i].status]_vars

\* C8: once the job is completed, no field of the job record changes.
C8_ImmutableAfterCompleted ==
  [][job.status = "completed" => job' = job]_vars

\* C9: whoever throws, a published event reaches every subscriber exactly
\* once, nothing propagates to the publisher, and the handler's state update
\* stands (the workers of a running job have been started).
C9_SubscribersIsolated ==
  published # << >> =>
    /\ \A s \in Subscribers :
         lastNotify.received[s] = IF s \in SubscriberSet THEN 1 ELSE 0
    /\ ~lastNotify.propagated
    /\ job.status \in {"running", "completed"} => DOMAIN wpc = Channels

\* an event published while the first subscriber of two throws
C9_Witness ==
  /\ published # << >>
  /\ Len(subscribers) >= 2
  /\ subscribers[1] \in lastNotify.threw
  /\ subscribers[2] \notin lastNotify.threw
  /\ lastNotify.received[subscribers[2]] = 1
  /\ job.status = "running"

\* C10: after a 429 answer with a retry-after header of n seconds,
\* makeRequest waits at least n * 1000 ms before its next attempt.
C10_RetryAfterHonoured ==
  (cpc = "attempt" /\ response.status = 429 /\ response.retryAfter # << >>)
    => waited >= response.retryAfter[1] * 1000

\* every status that answered the running call so far is a server error
allServerErrors ==
  /\ statuses # << >>
  /\ \A k \in 1..Len(statuses) : statuses[k] >= 500

\* C11: when every attempt of a makeRequest call is answered with a 5xx
\* status, the call dispatches exactly defaultRetries (3) attempts, never a
\* 4th, and ends by throwing 'Max retries exceeded', never by returning.
C11_ServerErrorsExhaust ==
  allServerErrors =>
    /\ httpAttempts <= defaultRetries
    /\ cpc # "returned"
    /\ cpc = "threw" => /\ thrown = "Max retries (3) exceeded"
                        /\ httpAttempts = defaultRetries

C11_Witness ==
  /\ cpc = "threw"
  /\ statuses = <<500, 500, 500>>
  /\ thrown = "Max retries (3) exceeded"

\* C12: every attempt a makeRequest call dispatches has its own
\* ensureAuthenticated check and its own waitForRateLimit grant: the call
\* never has dispatched more attempts than it made checks and got grants.
C12_ChecksBeforeEachAttempt ==
  /\ httpAttempts <= authChecks
  /\ httpAttempts <= rateGrants

\* C13: two consecutive grants of waitForRateLimit are at least
\* minRequestInterval apart, and so are two consecutive GET requests the
\* client sends.
C13_RequestsSpaced ==
  [][/\ (lastRequestTime' # lastRequestTime /\ lastRequestTime # 0)
          => lastRequestTime' - lastRequestTime >= minRequestInterval
     /\ (lastSent' # lastSent /\ lastSent # 0)
          => lastSent' - lastSent >= minRequestInterval]_vars

\* C14: an attempt answered 401 makes makeRequest exchange credentials and
\* sleep on no timer; the exchange either replaces the cached token and the
\* loop goes on, or fails and the call throws 'Reddit authentication failed';
\* the attempts of the call, 401-answered ones included, never exceed
\* defaultRetries.
C14_UnauthorizedReauthenticates ==
  [][(httpAttempts' = httpAttempts + 1 /\ response'.status = 401) =>
       /\ exchanged'
       /\ waited' = 0
       /\ httpAttempts' <= defaultRetries
       /\ \/ cpc' = "attempt" /\ accessToken' # accessToken
          \/ /\ cpc' = "threw"
             /\ thrown' = "Reddit authentication failed"]_vars

C14_Witness ==
  /\ cpc = "threw"
  /\ statuses = <<401, 401, 401>>
  /\ accessToken = 4

\* a 4xx status other than 401 and 429, or an error without HTTP status
nonRetryable(status) ==
  \/ status = -1
  \/ status >= 400 /\ status < 500 /\ status \notin {401, 429}

\* C15: an attempt that fails with a 4xx status other than 401 and 429, or
\* without any HTTP status, ends the call at once: the call throws without
\* sleeping, so no further attempt follows.
C15_OtherErrorsNotRetried ==
  [][(httpAttempts' = httpAttempts + 1 /\ nonRetryable(response'.status)) =>
       /\ cpc' = "threw"
       /\ waited' = 0
       /\ now' = now + Latency]_vars

C15_Witness ==
  /\ cpc = "threw"
  /\ statuses \in {<<500, -1>>, <<500, 404>>}
  /\ thrown = "request failed"

\* C16: ensureAuthenticated exchanges credentials exactly when no token is
\* cached or the time is within expiryMargin (300 s) of the moment the token
\* really expires; when it does not exchange, token and expiry are left as
\* they were.
C16_ExchangeOnlyWhenNeeded ==
  [][(cpc = "ensureAuthenticated" /\ cpc' # "ensureAuthenticated") =>
       /\ exchanged' <=>
            (accessToken = 0 \/ now >= realExpiry - expiryMargin * 1000)
       /\ ~exchanged' =>
            (accessToken' = accessToken /\ tokenExpiry' = tokenExpiry)]_vars

C16_Witness ==
  /\ cpc = "waitForRateLimit"
  /\ calls = 2
  /\ ~exchanged
  /\ accessToken # 0

\* a refresh near expiry is reached too
C16_Refreshed ==
  /\ cpc = "waitForRateLimit"
  /\ calls = 2
  /\ exchanged
  /\ accessToken >= 2

\* C17: no post in the array fetchPosts builds is older than the cutoff,
\* and once the fetcher has seen a post older than the cutoff (and set
\* beforeReachedCutoff) it requests no further feed page and no further
\* comment tree.
C17_CutoffRespected ==
  /\ [](\A k \in 1..Len(fetched) : fetched[k].created_utc >= cutoffTime)
  /\ [][beforeReachedCutoff =>
          /\ pageRequests' = pageRequests
          /\ treeRequests' = treeRequests]_vars

\* a window that ended at an old post although the page had a continuation
\* token and pages were left
C17_Witness ==
  /\ fpc = "returned"
  /\ ~testMode
  /\ beforeReachedCutoff
  /\ after
  /\ fetched # << >>
  /\ pageRequests < MaxPages

RECURSIVE liveIds(_)
RECURSIVE liveIdsOf(_)

\* the ids of the comments of these children, and of their replies, that are
\* not deleted or removed themselves
liveIdsOf(list) ==
  IF list = << >>
  THEN {}
  ELSE (IF removedComment(Head(list).data) THEN {} ELSE {Head(list).data.id})
       \cup liveIds(Head(list).data.replies)
       \cup liveIdsOf(Tail(list))

liveIds(listing) == liveIdsOf(listing.data.children)

RECURSIVE flatIds(_)

\* the ids of the comments in a flattened result
flatIds(cs) ==
  IF cs = << >>
  THEN {}
  ELSE {Head(cs).id} \cup flatIds(Head(cs).replies) \cup flatIds(Tail(cs))

\* C18: flattenComments omits the deleted and removed comments only: every
\* comment that is not deleted itself, under a deleted comment or not, is in
\* the result.
C18_DescendantsKept ==
  flattenDone => flatIds(comments) = liveIds(commentData)

\* C19: when fetchPostComments throws for a post, that post is pushed with
\* no comments, fetchPosts does not throw and its loop goes on with the
\* children left.
C19_CommentFailureIsolated ==
  [][(fpc = "comments" /\ logged' = "Failed to fetch comments") =>
       /\ fetched' = Append(fetched, fetchedPost(<< >>))
       /\ fpc' = "item"
       /\ ferror' = ""]_vars

\* a comment failure on a post with a child after it on the page
C19_Witness ==
  /\ logged = "Failed to fetch comments"
  /\ fpc = "item"
  /\ fetched # << >>
  /\ children # << >>
  /\ after

\* the first channel failed
firstChannelFailed ==
  /\ job.channels # << >>
  /\ statusOf(1) = "failed"

\* C20: after a feed page request failed, the worker never reaches the
\* connection test or the ingestion and the channel never completes; the
\* step that fails the channel publishes channel_error; and the channel does
\* end in failed.
C20_PageFailureFatal ==
  /\ [](ferror = "feed page request failed" =>
          /\ wpc[1] \notin {"testing", "ingesting"}
          /\ ~ingestReturned[1]
          /\ statusOf(1) # "completed")
  /\ [][(/\ ferror = "feed page request failed"
         /\ statusOf(1) # "failed"
         /\ job'.channels[1].status = "failed") =>
          /\ Len(published') = 1
          /\ published'[1].type = "channel_error"
          /\ published'[1].channel = 1]_vars
  /\ (ferror = "feed page request failed") ~> firstChannelFailed

\* a window that failed on a later page, with posts of earlier pages fetched
C20_Witness ==
  /\ ferror = "feed page request failed"
  /\ fetched # << >>
  /\ pageRequests >= 2
  /\ firstChannelFailed
  /\ job.status = "completed"

\* C21: once a credential exchange of the channel's client has failed during
\* the fetch phase (in the initial authenticate, or inside a feed page or a
\* comment request), the channel does not end completed.
C21_ExchangeFailureFatal ==
  exchangeFailed => (job.channels # << >> /\ statusOf(1) # "completed")

\* C22: in test mode the posts array never holds more than testModeLimit (5)
\* posts, and from the moment it holds 5 no feed page and no comment tree is
\* requested; a deleted or removed post is never the one whose comments are
\* requested, and the step that meets it pushes nothing.
C22_TestModeCap ==
  /\ [](testMode => Len(fetched) <= testModeLimit)
  /\ [](fpc = "comments" =>
          /\ Head(children).kind = "t3"
          /\ ~removedPost(Head(children).data))
  /\ [][(testMode /\ Len(fetched) >= testModeLimit) =>
          /\ pageRequests' = pageRequests
          /\ treeRequests' = treeRequests]_vars
  /\ [][(/\ fpc = "item"
         /\ children # << >>
         /\ Head(children).kind = "t3"
         /\ removedPost(Head(children).data)) =>
          /\ fetched' = fetched
          /\ treeRequests' = treeRequests]_vars

\* a test mode window that ended with its 5th post
C22_Witness ==
  /\ testMode
  /\ Len(fetched) = testModeLimit
  /\ beforeReachedCutoff
  /\ fpc = "returned"

RECURSIVE preorder(_, _)

\* the comments of an array in depth-first pre-order, each with the comment
\* it replies to (0 for a direct reply to the post)
preorder(cs, parent) ==
  IF cs = << >>
  THEN << >>
  ELSE <<[id |-> Head(cs).id, parent |-> parent]>>
         \o preorder(Head(cs).replies, Head(cs).id)
         \o preorder(Tail(cs), parent)

\* C23: transforming a fetched post yields one document for the post and one
\* for every reply in its tree, one plus the number of replies in all: the
\* first is the root document, not marked as a comment, the others are
\* marked as comments and follow in depth-first pre-order of the tree.
C23_OneDocumentPerNode ==
  tcalls >= 1 =>
    LET order == preorder(tpost.comments, 0)
    IN /\ Len(titems) = 1 + countComments(tpost.comments)
       /\ Len(order) = countComments(tpost.comments)
       /\ titems[1].isComment = FALSE
       /\ titems[1].id = <<tpost.id>>
       /\ \A k \in 1..Len(order) :
            /\ titems[k + 1].isComment = TRUE
            /\ titems[k + 1].id[Len(titems[k + 1].id)] = order[k].id

C23_Witness ==
  /\ tcalls >= 1
  /\ Len(titems) = 4
  /\ \E c \in 1..Len(tpost.comments) :
       /\ tpost.comments[c].replies # << >>
       /\ c < Len(tpost.comments)

\* C24: the ids of the documents of one channel run are pairwise different:
\* a root document carries the post's id, a direct reply its bare comment id,
\* a nested reply the pair of the post's id and its own. The posts and
\* comments of the run have pairwise different ids, as Reddit's have.
C24_IdsInjective ==
  /\ \A i, j \in 1..Len(produced) :
       i # j => produced[i].id # produced[j].id
  /\ ipc = "write" =>
       LET redditPost == batch[postIdx]
           order == preorder(redditPost.comments, 0)
       IN /\ items[1].id = <<redditPost.id>>
          /\ \A k \in 1..Len(order) :
               items[k + 1].id = IF order[k].parent = 0
                                 THEN <<order[k].id>>
                                 ELSE <<redditPost.id, order[k].id>>

C24_Witness ==
  /\ ipc = "returned"
  /\ Len(produced) = 6
  /\ \E i, j \in 1..Len(produced) :
       /\ Len(produced[i].id) = 2
       /\ Len(produced[j].id) = 2
       /\ produced[i].id[1] # produced[j].id[1]

refused ==
  \E k \in 1..Len(results.errors) :
    results.errors[k].error = AuthFailed

\* C26: once the store has answered 401 or 403 to a write, no further
\* document of the batch is written and ingestPosts does not return a
\* summary.
C26_AuthErrorAborts ==
  refused => ipc \notin {"write", "returned"}

\* the inner loop goes on after the item at hand: its next item is written,
\* or the next post is taken
goesOn ==
  IF itemIdx < Len(items)
  THEN ipc' = "write" /\ itemIdx' = itemIdx + 1 /\ postIdx' = postIdx
       /\ docWrites' = 1
  ELSE ipc' = "post" /\ postIdx' = postIdx + 1

\* the step records exactly one failure, for the item at hand
oneFailure(error, details) ==
  /\ results'.failed = results.failed + 1
  /\ results'.successful = results.successful
  /\ results'.errors =
       Append(results.errors, [id |-> items[itemIdx].id, error |-> error,
                               details |-> details])

\* C27: a write answered 422 is not repeated: the document is recorded as
\* one failure with the validation detail and the ingestion goes on with the
\* next document. When a call with 5 documents ends with the 3rd as its
\* only failure, a validation error, it has 4 successes and 1 failure.
C27_ValidationErrorSkipsDocument ==
  /\ [][(ipc = "write" /\ lastStatus' = 422) =>
          /\ oneFailure("Validation error", "validation detail")
          /\ goesOn]_vars
  /\ []((/\ ipc = "returned"
         /\ Len(produced) = 5
         /\ Len(results.errors) = 1
         /\ results.errors[1].id = produced[3].id
         /\ results.errors[1].error = "Validation error") =>
          /\ results.successful = 4
          /\ results.failed = 1
          /\ results.total = 5)

C27_Witness ==
  /\ ipc = "returned"
  /\ Len(produced) = 5
  /\ results.errors = <<[id |-> produced[3].id, error |-> "Validation error",
                         details |-> "validation detail"]>>
  /\ results.successful = 4

\* C28: no document is written more than maxRetries times. A write answered
\* 429 or 5xx is repeated while attempts are left; when none is left, or
\* when a write fails with another error that is not an authentication or a
\* validation error, the document is recorded as one failure and the
\* ingestion goes on with the next document.
C28_BoundedRetries ==
  /\ [](docWrites <= maxRetries)
  /\ [][(ipc = "write" /\ (lastStatus' = 429 \/ lastStatus' >= 500)) =>
          IF docWrites < maxRetries
          THEN /\ docWrites' = docWrites + 1
               /\ ipc' = "write"
               /\ itemIdx' = itemIdx
               /\ postIdx' = postIdx
               /\ results' = results
          ELSE /\ oneFailure("Max retries (3) exceeded", "")
               /\ goesOn]_vars
  /\ [][(ipc = "write" /\ lastStatus' \in {404, -1}) =>
          /\ oneFailure("request failed", "")
          /\ goesOn]_vars

C28_Witness ==
  /\ ipc = "returned"
  /\ results.successful = 1
  /\ Len(results.errors) = 2
  /\ results.errors[1].error = "Max retries (3) exceeded"
  /\ results.errors[2].error = "request failed"
  /\ results.errors[2].id = produced[2].id
  /\ produced[3].isComment

\* C29: the summary ingestPosts returns counts every document once: total is
\* successful plus failed, successful is posts plus comments, and errors has
\* one entry per failed document.
C29_SummaryAccountsForAll ==
  ipc = "returned" =>
    /\ results.total = results.successful + results.failed
    /\ results.successful = results.posts + results.comments
    /\ Len(results.errors) = results.failed
    /\ results.total = Len(produced)

\* the window yielded two posts, one with three comments and one with none,
\* and the ingestion of them has returned
twoPostsThreeReplies ==
  /\ ipc = "returned"
  /\ batch = fetched
  /\ Len(fetched) = 2
  /\ \E i, j \in 1..2 :
       /\ countComments(fetched[i].comments) = 3
       /\ fetched[j].comments = << >>

\* C30: when the window of a job's only channel yielded two posts, one with
\* three comments and one without, and the store accepted every document,
\* the worker's summary is 2 posts, 3 comments, 5 successes, no failure, and
\* once startJob has settled the job the job is completed, the channel is
\* completed and job.totalStats is that summary.
C30_EndToEnd ==
  twoPostsThreeReplies =>
    /\ statsOf(results) =
         [posts |-> 2, comments |-> 3, successful |-> 5, failed |-> 0]
    /\ job.completedAt # 0 =>
         /\ job.status = "completed"
         /\ statusOf(1) = "completed"
         /\ job.totalStats =
              [posts |-> 2, comments |-> 3, successful |-> 5, failed |-> 0]

C30_Witness ==
  /\ twoPostsThreeReplies
  /\ job.status = "completed"
  /\ statusOf(1) = "completed"
  /\ job.totalStats =
       [posts |-> 2, comments |-> 3, successful |-> 5, failed |-> 0]

\* the worker threads that have been created and have not exited
cliThreads == { c \in DOMAIN cliWorker : cliWorker[c] \in {"running", "errored"} }

\* C31 as stated: in main at most MaxConcurrent worker threads exist at any
\* instant.
C31_AtMostThreeThreads == Cardinality(cliThreads) <= MaxConcurrent

\* C31, amended: at most MaxConcurrent workers whose promise is pending exist
\* at any instant; after main's first workers, a worker is created only in a
\* step in which the promise of a created worker settles, by its 'exit' or by
\* its 'error'; and every enabled channel's worker is eventually started.
C31_AtMostThreePending ==
  /\ [](activeCount(cliWorker, cliPromise) <= MaxConcurrent)
  /\ [][\A c \in DOMAIN cliWorker :
          (cliWorker[c] = "queued" /\ cliWorker'[c] # "queued") =>
            \E d \in DOMAIN cliWorker :
              /\ cliWorker[d] = "running"
              /\ cliPromise[d] = "pending"
              /\ cliPromise'[d] # "pending"
              /\ cliWorker'[d] \in {"errored", "exited"}]_vars
  /\ (cliChannels > 0) ~>
       (cliWorker # << >> /\ \A c \in DOMAIN cliWorker : cliWorker[c] # "queued")

C31_Witness ==
  /\ cliChannels = MaxCliChannels
  /\ Len(cliWorker) = MaxCliChannels
  /\ cliWorker[MaxCliChannels] = "running"
  /\ Cardinality(cliThreads) = MaxConcurrent + 1
  /\ activeCount(cliWorker, cliPromise) = MaxConcurrent

\* the documents whose outcome the call has recorded
outcomes == results.successful + results.failed

\* C32: within one ingestPosts call the documents are written one at a time
\* in the order they were produced: the posts in the order of the batch, the
\* documents of a post from its root document on in the order of the
\* transformation, and the write of another document is dispatched only in
\* a step that records the outcome of the document written before.
C32_WritesInEmissionOrder ==
  /\ [](ipc = "write" =>
          /\ itemIdx \in 1..Len(items)
          /\ postIdx \in 1..Len(batch)
          /\ items = transformPostToVectorFormat(batch[postIdx], platformName)
          /\ docWrites >= 1)
  /\ [][(ipc = "post" /\ ipc' = "write") =>
          /\ postIdx' = postIdx
          /\ itemIdx' = 1
          /\ items'[1].isComment = FALSE
          /\ items'[1].id = <<batch[postIdx].id>>]_vars
  /\ [][(ipc = "write" /\ ipc' = "write" /\ itemIdx' # itemIdx) =>
          /\ postIdx' = postIdx
          /\ itemIdx' = itemIdx + 1
          /\ outcomes' = outcomes + 1]_vars
  /\ [][(ipc # "idle" /\ postIdx' # postIdx) =>
          /\ postIdx' = postIdx + 1
          /\ outcomes' = outcomes + 1
          /\ ipc' = "post"]_vars

C32_Witness ==
  /\ ipc = "write"
  /\ postIdx = 2
  /\ itemIdx = 3
  /\ results.successful = 5

\* the types of the job-level events published so far
jobEventTypes == [k \in 1..Len(history.job) |-> history.job[k].type]

\* C33: the job-level events are published in the order job_created,
\* job_started, job_completed, each once: one when the job is pending, two
\* when it runs, all three when it is completed. The events of a channel are
\* published while the job runs, after job_started and before job_completed,
\* and the statuses they carry go forward: started, fetching, ingesting,
\* completed or failed.
C33_EventsOrdered ==
  /\ [](jobEventTypes =
          CASE job.status = "none" -> << >>
            [] job.status = "pending" -> <<"job_created">>
            [] job.status = "running" -> <<"job_created", "job_started">>
            [] job.status = "completed" ->
                 <<"job_created", "job_started", "job_completed">>)
  /\ [](\A i \in DOMAIN history.channel :
          \A k \in 1..Len(history.channel[i]) :
            /\ history.channel[i][k].type \in
                 {"channel_progress", "channel_completed", "channel_error"}
            /\ k > 1 => rank(eventStatus(history.channel[i][k]))
                          > rank(eventStatus(history.channel[i][k - 1])))
  /\ [][(history'.channel # history.channel) =>
          /\ job.status = "running"
          /\ job'.status = "running"
          /\ history'.job = history.job]_vars

C33_Witness ==
  /\ job.status = "completed"
  /\ Len(history.job) = 3
  /\ \E i, j \in DOMAIN history.channel :
       /\ Len(history.channel[i]) = 4
       /\ history.channel[i][4].type = "channel_completed"
       /\ Len(history.channel[j]) = 3
       /\ history.channel[j][3].type = "channel_error"

\* C34: in the step that makes the job completed every channel of the job
\* is completed or failed, and it stays so: a completed job has no channel
\* that is pending, started, fetching or ingesting.
C34_CompletedJobHasTerminalChannels ==
  /\ [][(job.status # "completed" /\ job'.status = "completed") =>
          /\ nch > 0
          /\ \A i \in 1..nch : job'.channels[i].status \in Terminal]_vars
  /\ [](job.status = "completed" =>
          \A i \in 1..nch : statusOf(i) \in Terminal)

C34_Witness ==
  /\ job.status = "completed"
  /\ nch = MaxChannels
  /\ \E i, j \in 1..nch :
       /\ statusOf(i) = "completed"
       /\ statusOf(j) = "failed" /\ promise[j] = "rejected"

\* C35: every document written for the channel carries the platform of the
\* channel's entry in the enabled channels: channels.json's platform tag,
\* or the channel's name where it has none.
C35_PlatformTag ==
  \A k \in 1..Len(produced) :
    produced[k].platform = enabledChannels[1].platform

\* the terminal messages worker i has posted
terminalsOf(i) ==
  { k \in 1..Len(sent[i]) : sent[i][k].type \in {"complete", "error"} }

\* the statuses of the progress messages worker i has posted, in their order
RECURSIVE progressOf(_)
progressOf(msgs) ==
  IF msgs = << >> THEN << >>
  ELSE IF Head(msgs).type = "progress"
       THEN <<Head(msgs).status>> \o progressOf(Tail(msgs))
       ELSE progressOf(Tail(msgs))

\* at most one terminal message, the last one posted, after progress
\* messages in the order started, fetching, ingesting
wellFormed(msgs) ==
  /\ \A k \in 1..Len(msgs) :
       msgs[k].type \in {"complete", "error"} => k = Len(msgs)
  /\ progressOf(msgs) \in {<< >>, <<"started">>, <<"started", "fetching">>,
                           <<"started", "fetching", "ingesting">>}

\* C36 as stated: every worker whose thread has stopped has posted exactly
\* one terminal message.
C36_OneTerminalPerThread ==
  \A i \in DOMAIN wpc :
    wpc[i] = "exited" => Cardinality(terminalsOf(i)) = 1

\* C36, amended: a worker posts at most one terminal message, nothing after
\* it, and its progress messages in the order started, fetching, ingesting;
\* it has posted exactly one terminal message once processChannel has
\* settled, and none when an uncaught exception ended the thread before.
C36_OneTerminalPerRun ==
  /\ [](\A i \in DOMAIN wpc :
          /\ wellFormed(sent[i])
          /\ wpc[i] \in {"done", "rejected"} =>
               Cardinality(terminalsOf(i)) = 1)
  /\ [](\A i \in DOMAIN wpc :
          wpc[i] \in Alive \ {"done"} => terminalsOf(i) = {})
  /\ [][\A i \in DOMAIN wpc :
          (terminalsOf(i) # {}) => sent'[i] = sent[i]]_vars

C36_Witness ==
  \E i, j \in DOMAIN wpc :
    /\ wpc[i] = "exited" /\ Len(sent[i]) = 4 /\ sent[i][4].type = "complete"
    /\ wpc[j] = "rejected" /\ Len(sent[j]) = 3 /\ sent[j][3].type = "error"

\* the worker of the channel has left the connection test with a bad answer
healthCheckFailed ==
  /\ 1 \in DOMAIN health
  /\ health[1] \in HealthAnswers \ {"healthy"}

\* fetchPosts has returned an empty window to the worker of the channel
emptyWindow ==
  /\ 1 \in DOMAIN wpc
  /\ wpc[1] \notin {"spawned", "fetching"}
  /\ posts[1] = 0

\* no document was handed to the store, none was built
nothingWritten ==
  ipc = "idle" /\ produced = << >> /\ docWrites = 0

\* C37: when the connection test of a channel with fetched posts fails, no
\* document of the channel is written and the channel ends failed; when the
\* window has no post, the connection is not tested, no document is written
\* and the channel ends completed with all-zero stats.
C37_HealthCheckGuardsWrites ==
  /\ [](healthCheckFailed =>
          /\ posts[1] > 0
          /\ nothingWritten
          /\ wpc[1] \in {"done", "exited"}
          /\ sent[1][Len(sent[1])] = ErrorMsg("Vector DB connection test failed")
          /\ wpc[1] = "exited" => statusOf(1) = "failed")
  /\ [](emptyWindow =>
          /\ health[1] = "untested"
          /\ nothingWritten
          /\ wpc[1] \in {"done", "exited"}
          /\ wpc[1] = "exited" =>
               /\ statusOf(1) = "completed"
               /\ job.channels[1].stats = <<ZeroStats>>)
  /\ []((1 \in DOMAIN wpc /\ wpc[1] = "testing") => posts[1] > 0)

C37_Witness ==
  /\ healthCheckFailed
  /\ health[1] = "unhealthy"
  /\ job.status = "completed"
  /\ statusOf(1) = "failed"
  /\ posts[1] = MaxBatch

\* an empty window has ended in a completed channel
C37_WitnessEmpty ==
  /\ emptyWindow
  /\ job.status = "completed"
  /\ statusOf(1) = "completed"

\* C38: deleteJob on a running job throws, leaves the registry and the job
\* as they are and publishes nothing, so that a running job is always in the
\* registry; on an unknown id it returns false and publishes nothing; on any
\* other job it removes the job and publishes one job_deleted.
C38_RunningJobNotDeleted ==
  /\ [](job.status = "running" => 1 \in jobs)
  /\ [][(job.status = "running" /\ 1 \in jobs) => 1 \in jobs']_vars
  /\ [][(deleteResult' # << >>) =>
          LET jobId == deleteResult'[1]
              outcome == deleteResult'[2]
          IN /\ job' = job
             /\ outcome = "threw" <=> (jobId \in jobs /\ job.status = "running")
             /\ outcome = "false" <=> jobId \notin jobs
             /\ outcome \in {"threw", "false"} =>
                  jobs' = jobs /\ published' = << >> /\ history' = history
             /\ outcome = "true" =>
                  /\ jobs' = jobs \ {jobId} /\ jobId \notin jobs'
                  /\ Len(published') = 1
                  /\ published'[1].type = "job_deleted"]_vars

C38_Witness ==
  /\ deleteResult = <<1, "threw">>
  /\ job.status = "running"
  /\ 1 \in jobs
  /\ \E i \in DOMAIN wpc : wpc[i] = "ingesting"

\* a completed job has been deleted
C38_WitnessDeleted ==
  /\ deleteResult = <<1, "true">>
  /\ job.status = "completed"
  /\ jobs = {}

\* fetchPosts is over
fetchEnded == fpc \in {"returned", "threw"}

\* C39: fetchPosts, once called, returns or throws; its loop ends on an
\* empty page, or after the items of a page when the page had no
\* continuation token, an item older than the cutoff was met or the cap of
\* the test mode is reached; and a page is requested only when no item of
\* the page before is left and no comment request is open.
C39_FetchTerminates ==
  /\ (fpc = "authenticate") ~> fetchEnded
  /\ [][(fpc # "returned" /\ fpc' = "returned") =>
          \/ fpc = "page" /\ children' = << >>
          \/ /\ fpc = "item" /\ children = << >>
             /\ \/ ~after
                \/ beforeReachedCutoff
                \/ (testMode /\ Len(fetched) >= testModeLimit)]_vars
  /\ [][(pageRequests' # pageRequests) =>
          /\ pageRequests' = pageRequests + 1
          /\ fpc' = "page"
          /\ children = << >>
          /\ fpc \in {"authenticate", "item"}
          /\ fpc = "item" =>
               /\ after /\ ~beforeReachedCutoff
               /\ Len(fetched) = treeRequests]_vars
  /\ [](fpc \in {"page", "comments"} => ~beforeReachedCutoff)

\* a window of MaxPages pages that ended because the last page had no token
C39_Witness ==
  /\ fpc = "returned"
  /\ pageRequests = MaxPages
  /\ ~after
  /\ ~beforeReachedCutoff
  /\ Len(fetched) >= MaxPages
  /\ logged = "Fetched posts"

\* the answer of the attempt of this step asks for the exponential backoff
\* of makeRequest: a 5xx, or a 429 without retry-after header
clientBacksOff ==
  /\ cpc = "attempt"
  /\ httpAttempts' = httpAttempts + 1
  /\ \/ response'.status >= 500
     \/ response'.status = 429 /\ response'.retryAfter = << >>

\* the answer of the POST of this step asks for the backoff of ingestItem
storeBacksOff ==
  /\ ipc = "write"
  /\ lastStatus' = 429 \/ lastStatus' >= 500

\* C40: after the attempt number k (from 0) of makeRequest was answered 5xx,
\* or 429 without retry-after header, the call sleeps 2^k * 1000 ms, that is
\* 1000, 2000, 4000 ms for its three attempts; ingestItem sleeps the same
\* after a 429 or a 5xx of its attempt number k (the sleep after the last
\* attempt is followed by the 100 ms between two items).
C40_ExponentialBackoff ==
  /\ [][clientBacksOff =>
          /\ attempt \in 0..(defaultRetries - 1)
          /\ waited' = (2 ^ attempt) * 1000
          /\ waited' = <<1000, 2000, 4000>>[attempt + 1]
          /\ now' = now + Latency + waited'
          /\ attempt' = attempt + 1]_vars
  /\ [][storeBacksOff =>
          /\ iattempt \in 0..(maxRetries - 1)
          /\ IF iattempt + 1 < maxRetries
             THEN /\ iwaited' = (2 ^ iattempt) * 1000
                  /\ iwaited' = <<1000, 2000>>[iattempt + 1]
                  /\ iattempt' = iattempt + 1
                  /\ ipc' = "write"
             ELSE /\ iwaited' = 4000 + itemDelay
                  /\ ipc' # "write"]_vars

\* the store has answered the third POST of a document with an error, after
\* the client's calls
C40_Witness ==
  /\ calls = MaxCalls
  /\ lastStatus = 500
  /\ iwaited = 4000 + itemDelay
  /\ results.failed = 1

\* the third attempt of a makeRequest call has been answered 5xx after a 429
\* without retry-after header
C40_WitnessClient ==
  /\ cpc = "attempt"
  /\ Len(statuses) = 3
  /\ statuses[2] = 429
  /\ statuses[3] = 500
  /\ waited = 4000
  /\ attempt = 3

====
